---------------------------- MODULE Spec2Model ----------------------------
(* aras-auth: token lifecycle (access/refresh issuance, validation,       *)
(* rotation, revocation), local-provider login and the RBAC permission     *)
(* resolver, modelled from the Go sources.                                 *)
EXTENDS Integers, Sequences, FiniteSets, TLC

(***************************************************************************)
(* Universe of the model                                                   *)
(***************************************************************************)
Users == {"u1", "u2"}
Roles == {"r1", "r2"}
Groups == {"g1"}
PermIds == {"p1"}
Resources == {"orders", "users"}
Actions == {"read"}

\* domain.UserStatus values
UserStatusActive == "active"
UserStatusInactive == "inactive"
UserStatusPending == "pending"
UserStatusSuspended == "suspended"
UserStatuses == {UserStatusActive, UserStatusInactive, UserStatusPending, UserStatusSuspended}

VARIABLES
  users,             \* users table: id -> [email, password_hash, status, is_deleted]
  roles,             \* roles table: id -> [is_active, is_deleted]
  groups,            \* groups table: id -> [is_active, is_deleted, deleted_at]
  permissions,       \* permissions table: id -> [resource, action, is_active, is_deleted]
  user_roles,        \* junction table, set of <<user_id, role_id>>
  group_roles,       \* junction table, set of <<group_id, role_id>>
  user_groups,       \* junction table, set of <<user_id, group_id>>
  role_permissions,  \* junction table, set of <<role_id, permission_id>>
  lastCheck,         \* the last CheckPermission request and its response
  refresh_tokens,    \* refresh_tokens table: set of [id, user_id, token_hash, expires_at]
  now,               \* the clock (time.Now() and the store's NOW()), in ticks
  uuidNext,          \* the next value uuid.New() returns
  issued,            \* the signed refresh tokens handed to clients so far
  rt,                \* the in-flight AuthUseCase.RefreshToken call of each client
  rotated,           \* the refresh tokens some RefreshToken call has exchanged for a pair
  logins,            \* what the callers of successful Logins presented and received
  lastOp,            \* the latest handler call and what it returned
  refreshExpiry,     \* the refresh lifetime the JWT service was constructed with
  providers,         \* ProviderRegistry.providers: name -> provider
  defaultProvider,   \* ProviderRegistry.defaultProvider: a name, "" while unset
  mu,                \* ProviderRegistry.mu: [writer, readers]
  call,              \* the in-flight registry call of each thread
  registered         \* the providers registered successfully so far, in order

authzVars == <<roles, groups, permissions, user_roles, group_roles, user_groups,
               role_permissions, lastCheck>>
tokVars == <<refresh_tokens, now, uuidNext, issued, rt, rotated, logins, lastOp>>
regVars == <<providers, defaultProvider, mu, call, registered>>
svcVars == <<refreshExpiry, regVars>>
vars == <<users, authzVars, tokVars, svcVars>>

(***************************************************************************)
(* pkg/password                                                            *)
(***************************************************************************)
HashPassword(pw) == <<"bcrypt", pw>>
VerifyPassword(hashedPassword, pw) == hashedPassword = <<"bcrypt", pw>>

\* faulty variant: no minimum length
IsValidPasswordAnyLength(pw) == TRUE

\* IsValidPassword: len(password) >= 8
IsValidPassword(pw) == Len(pw) >= 8

EmailOf(u) == IF u = "u1" THEN "u1@x" ELSE "u2@x"
PasswordOf(u) == IF u = "u1" THEN "secret-u1" ELSE "secret-u2"

(***************************************************************************)
(* PermissionRepository.CheckUserPermission: two row-count sub-queries    *)
(* joined by UNION ALL, then a scan of the result rows.                    *)
(***************************************************************************)
\* faulty variant: the direct branch without the filter on the role's is_active
DirectRowsNoRoleActive(userID, resource, action) ==
  { t \in (DOMAIN permissions) \X (DOMAIN roles) :
      /\ <<t[2], t[1]>> \in role_permissions
      /\ <<userID, t[2]>> \in user_roles
      /\ permissions[t[1]].resource = resource
      /\ permissions[t[1]].action = action
      /\ permissions[t[1]].is_deleted = FALSE
      /\ permissions[t[1]].is_active = TRUE
      /\ roles[t[2]].is_deleted = FALSE }

DirectRows(userID, resource, action) ==
  { t \in (DOMAIN permissions) \X (DOMAIN roles) :
      /\ <<t[2], t[1]>> \in role_permissions
      /\ <<userID, t[2]>> \in user_roles
      /\ permissions[t[1]].resource = resource
      /\ permissions[t[1]].action = action
      /\ permissions[t[1]].is_deleted = FALSE
      /\ permissions[t[1]].is_active = TRUE
      /\ roles[t[2]].is_deleted = FALSE
      /\ roles[t[2]].is_active = TRUE }

\* faulty variant: the group branch without the filter on the group's own flags
GroupRowsNoGroupFilter(userID, resource, action) ==
  { t \in (DOMAIN permissions) \X (DOMAIN roles) \X (DOMAIN groups) :
      /\ <<t[2], t[1]>> \in role_permissions
      /\ <<t[3], t[2]>> \in group_roles
      /\ <<userID, t[3]>> \in user_groups
      /\ permissions[t[1]].resource = resource
      /\ permissions[t[1]].action = action
      /\ permissions[t[1]].is_deleted = FALSE
      /\ permissions[t[1]].is_active = TRUE
      /\ roles[t[2]].is_deleted = FALSE
      /\ roles[t[2]].is_active = TRUE }

GroupRows(userID, resource, action) ==
  { t \in (DOMAIN permissions) \X (DOMAIN roles) \X (DOMAIN groups) :
      /\ <<t[2], t[1]>> \in role_permissions
      /\ <<t[3], t[2]>> \in group_roles
      /\ <<userID, t[3]>> \in user_groups
      /\ permissions[t[1]].resource = resource
      /\ permissions[t[1]].action = action
      /\ permissions[t[1]].is_deleted = FALSE
      /\ permissions[t[1]].is_active = TRUE
      /\ roles[t[2]].is_deleted = FALSE
      /\ roles[t[2]].is_active = TRUE
      /\ groups[t[3]].is_deleted = FALSE
      /\ groups[t[3]].is_active = TRUE }

\* the result set of the UNION ALL query: one boolean row per branch
PermissionQueryRows(userID, resource, action) ==
  << Cardinality(DirectRows(userID, resource, action)) > 0,
     Cardinality(GroupRows(userID, resource, action)) > 0 >>

\* for rows.Next() { if hasPermission { return true } } return false
RECURSIVE ScanRows(_, _)
ScanRows(rows, i) ==
  IF i > Len(rows) THEN FALSE
  ELSE IF rows[i] THEN TRUE
  ELSE ScanRows(rows, i + 1)

CheckUserPermission(userID, resource, action) ==
  ScanRows(PermissionQueryRows(userID, resource, action), 1)

(***************************************************************************)
(* Time, identifiers and tokens                                            *)
(***************************************************************************)
\* bounds of the exploration
MaxTime == 2
MaxTokens == 3

\* lifetimes in ticks (only their order matters): the configured access and
\* refresh lifetimes, and the lifetime GenerateRefreshToken gives the record
AccessExpiry == 1
RefreshExpiry == 2
RefreshRecordLifetime == 2

Clients == {"c1", "c2"}
LoginNames == {"u1@x", "u2@x", "nobody@x"}
Passwords == {"secret-u1", "secret-u2", "wrong"}

NoToken == [typ |-> "none"]
NoOp == [op |-> "none", email |-> "none", password |-> "none", token |-> NoToken,
         err |-> "none", access |-> NoToken, refresh |-> NoToken, result |-> [err |-> "none"],
         user |-> "none", newPassword |-> "none", group |-> "none", target |-> "none"]
IdleCall == [pc |-> "idle", token |-> NoToken, user |-> "none", err |-> "none",
             access |-> NoToken, refresh |-> NoToken, reuse |-> FALSE]

InitTok ==
  /\ refresh_tokens = {}
  /\ now = 0
  /\ uuidNext = 1
  /\ issued = {}
  /\ rt = [c \in Clients |-> IdleCall]
  /\ rotated = {}
  /\ logins = {}
  /\ lastOp = NoOp

(***************************************************************************)
(* Initial state: the seeded store (every row active and not deleted, no   *)
(* assignment edges yet).                                                  *)
(***************************************************************************)
NoCheck == [user |-> "none", resource |-> "none", action |-> "none", has_permission |-> FALSE]

InitUsers ==
  users = [u \in Users |-> [email |-> EmailOf(u),
                            password_hash |-> HashPassword(PasswordOf(u)),
                            status |-> UserStatusActive,
                            is_deleted |-> FALSE]]

InitAuthz ==
  /\ roles = [r \in Roles |-> [is_active |-> TRUE, is_deleted |-> FALSE]]
  /\ groups = [g \in Groups |-> [is_active |-> TRUE, is_deleted |-> FALSE,
                                  deleted_at |-> "NULL"]]
  /\ permissions = [p \in PermIds |-> [resource |-> "orders", action |-> "read",
                                        is_active |-> TRUE, is_deleted |-> FALSE]]
  /\ user_roles = {}
  /\ group_roles = {}
  /\ user_groups = {}
  /\ role_permissions = {}
  /\ lastCheck = NoCheck

(***************************************************************************)
(* Assignment edges                                                        *)
(***************************************************************************)
\* PermissionRepository.AssignToRole: INSERT ... ON CONFLICT DO NOTHING
AssignToRole(roleID, permissionID) ==
  /\ role_permissions' = role_permissions \cup {<<roleID, permissionID>>}
  /\ lastCheck' = NoCheck
  /\ UNCHANGED <<svcVars, tokVars, users, roles, groups, permissions, user_roles, group_roles, user_groups>>

\* PermissionRepository.RemoveFromRole
RemoveFromRole(roleID, permissionID) ==
  /\ role_permissions' = role_permissions \ {<<roleID, permissionID>>}
  /\ lastCheck' = NoCheck
  /\ UNCHANGED <<svcVars, tokVars, users, roles, groups, permissions, user_roles, group_roles, user_groups>>

\* faulty variant: the assignment replaces the user's roles instead of adding one
AssignToUserReplacing(userID, roleID) ==
  /\ user_roles' = {e \in user_roles : e[1] # userID} \cup {<<userID, roleID>>}
  /\ lastCheck' = NoCheck
  /\ UNCHANGED <<svcVars, tokVars, users, roles, groups, permissions, group_roles, user_groups, role_permissions>>

\* RoleRepository.AssignToUser: INSERT ... ON CONFLICT DO NOTHING
AssignToUser(userID, roleID) ==
  /\ user_roles' = user_roles \cup {<<userID, roleID>>}
  /\ lastCheck' = NoCheck
  /\ UNCHANGED <<svcVars, tokVars, users, roles, groups, permissions, group_roles, user_groups, role_permissions>>

\* RoleRepository.RemoveFromUser
RemoveFromUser(userID, roleID) ==
  /\ user_roles' = user_roles \ {<<userID, roleID>>}
  /\ lastCheck' = NoCheck
  /\ UNCHANGED <<svcVars, tokVars, users, roles, groups, permissions, group_roles, user_groups, role_permissions>>

\* RoleRepository.AssignToGroup
AssignToGroup(groupID, roleID) ==
  /\ group_roles' = group_roles \cup {<<groupID, roleID>>}
  /\ lastCheck' = NoCheck
  /\ UNCHANGED <<svcVars, tokVars, users, roles, groups, permissions, user_roles, user_groups, role_permissions>>

\* RoleRepository.RemoveFromGroup
RemoveFromGroup(groupID, roleID) ==
  /\ group_roles' = group_roles \ {<<groupID, roleID>>}
  /\ lastCheck' = NoCheck
  /\ UNCHANGED <<svcVars, tokVars, users, roles, groups, permissions, user_roles, user_groups, role_permissions>>

\* GroupRepository.AddMember
AddMember(groupID, userID) ==
  /\ user_groups' = user_groups \cup {<<userID, groupID>>}
  /\ lastCheck' = NoCheck
  /\ UNCHANGED <<svcVars, tokVars, users, roles, groups, permissions, user_roles, group_roles, role_permissions>>

\* GroupRepository.RemoveMember
RemoveMember(groupID, userID) ==
  /\ user_groups' = user_groups \ {<<userID, groupID>>}
  /\ lastCheck' = NoCheck
  /\ UNCHANGED <<svcVars, tokVars, users, roles, groups, permissions, user_roles, group_roles, role_permissions>>

(***************************************************************************)
(* Row flags                                                               *)
(***************************************************************************)
\* RoleRepository.Update: UPDATE roles SET ..., is_active = $4 WHERE id = $1
RoleUpdate(roleID, isActive) ==
  /\ roles' = [roles EXCEPT ![roleID].is_active = isActive]
  /\ lastCheck' = NoCheck
  /\ UNCHANGED <<svcVars, tokVars, users, groups, permissions, user_roles, group_roles, user_groups, role_permissions>>

\* RoleRepository.Delete: SET is_deleted = TRUE WHERE id = $1 AND is_deleted = FALSE
RoleDelete(roleID) ==
  /\ roles[roleID].is_deleted = FALSE
  /\ roles' = [roles EXCEPT ![roleID].is_deleted = TRUE]
  /\ lastCheck' = NoCheck
  /\ UNCHANGED <<svcVars, tokVars, users, groups, permissions, user_roles, group_roles, user_groups, role_permissions>>

\* PermissionRepository.Delete: SET is_deleted = TRUE WHERE id = $1 AND is_deleted = FALSE
PermissionDelete(permissionID) ==
  /\ permissions[permissionID].is_deleted = FALSE
  /\ permissions' = [permissions EXCEPT ![permissionID].is_deleted = TRUE]
  /\ lastCheck' = NoCheck
  /\ UNCHANGED <<svcVars, tokVars, users, roles, groups, user_roles, group_roles, user_groups, role_permissions>>

\* permissions.is_active column: no repository method writes it, the row is
\* switched in the store
SetPermissionActive(permissionID, isActive) ==
  /\ permissions' = [permissions EXCEPT ![permissionID].is_active = isActive]
  /\ lastCheck' = NoCheck
  /\ UNCHANGED <<svcVars, tokVars, users, roles, groups, user_roles, group_roles, user_groups, role_permissions>>

\* groups.is_active column: switched in the store
SetGroupActive(groupID, isActive) ==
  /\ groups' = [groups EXCEPT ![groupID].is_active = isActive]
  /\ lastCheck' = NoCheck
  /\ UNCHANGED <<svcVars, tokVars, users, roles, permissions, user_roles, group_roles, user_groups, role_permissions>>

\* groups.is_deleted column: switched in the store
SetGroupDeleted(groupID) ==
  /\ groups[groupID].is_deleted = FALSE
  /\ groups' = [groups EXCEPT ![groupID].is_deleted = TRUE]
  /\ lastCheck' = NoCheck
  /\ UNCHANGED <<svcVars, tokVars, users, roles, permissions, user_roles, group_roles, user_groups, role_permissions>>

(***************************************************************************)
(* AuthzUseCase.CheckPermission                                            *)
(***************************************************************************)
CheckPermission(userID, resource, action) ==
  /\ lastCheck' = [user |-> userID, resource |-> resource, action |-> action,
                   has_permission |-> CheckUserPermission(userID, resource, action)]
  /\ UNCHANGED <<svcVars, tokVars, users, roles, groups, permissions, user_roles, group_roles,
                 user_groups, role_permissions>>

(***************************************************************************)
(* Identity providers and the state of the services after start-up         *)
(***************************************************************************)
\* the provider instances handed to the registry: two named "local", one
\* disabled, one with an empty name
LocalProvider == [id |-> "A", name |-> "local", enabled |-> TRUE]
Providers ==
  {LocalProvider,
   [id |-> "B", name |-> "local", enabled |-> TRUE],
   [id |-> "C", name |-> "ldap", enabled |-> FALSE],
   [id |-> "D", name |-> "oauth", enabled |-> TRUE],
   [id |-> "E", name |-> "", enabled |-> TRUE]}
GetProviderName(provider) == provider.name
IsEnabled(provider) == provider.enabled

Threads == {"t1", "t2"}
NoSnapshot == [providers |-> <<>>, defaultProvider |-> ""]
IdleRegistryCall == [pc |-> "idle", op |-> "none", provider |-> LocalProvider, name |-> "",
                     err |-> "none", result |-> {}, before |-> NoSnapshot]

\* provider.NewProviderRegistry()
NewProviderRegistry ==
  /\ providers = <<>>
  /\ defaultProvider = ""
  /\ mu = [writer |-> "none", readers |-> {}]
  /\ call = [t \in Threads |-> IdleRegistryCall]
  /\ registered = <<>>

\* main: the JWT service gets the configured lifetimes, the registry gets the
\* local provider
InitSvc ==
  /\ refreshExpiry = RefreshExpiry
  /\ providers = [n \in {"local"} |-> LocalProvider]
  /\ defaultProvider = "local"
  /\ mu = [writer |-> "none", readers |-> {}]
  /\ call = [t \in Threads |-> IdleRegistryCall]
  /\ registered = <<LocalProvider>>

InitGraph == InitUsers /\ InitAuthz /\ InitTok /\ InitSvc

NextGraph ==
  \/ \E r \in Roles, p \in PermIds : AssignToRole(r, p)
  \/ \E r \in Roles, p \in PermIds : RemoveFromRole(r, p)
  \/ \E u \in Users, r \in Roles : AssignToUser(u, r)
  \/ \E u \in Users, r \in Roles : RemoveFromUser(u, r)
  \/ \E g \in Groups, r \in Roles : AssignToGroup(g, r)
  \/ \E g \in Groups, r \in Roles : RemoveFromGroup(g, r)
  \/ \E g \in Groups, u \in Users : AddMember(g, u)
  \/ \E g \in Groups, u \in Users : RemoveMember(g, u)
  \/ \E r \in Roles, b \in BOOLEAN : RoleUpdate(r, b)
  \/ \E r \in Roles : RoleDelete(r)
  \/ \E p \in PermIds : PermissionDelete(p)
  \/ \E p \in PermIds, b \in BOOLEAN : SetPermissionActive(p, b)
  \/ \E g \in Groups, b \in BOOLEAN : SetGroupActive(g, b)
  \/ \E g \in Groups : SetGroupDeleted(g)

SpecGraph == InitGraph /\ [][NextGraph]_vars

(***************************************************************************)
(* UserUseCase.UpdateUser / DeleteUser (status and soft delete)            *)
(***************************************************************************)
\* UserRepository.GetByID: WHERE id = $1 AND is_deleted = FALSE
UserGetByID(id) ==
  IF id \in Users /\ users[id].is_deleted = FALSE
  THEN [found |-> TRUE, id |-> id, user |-> users[id]]
  ELSE [found |-> FALSE, id |-> "none", user |-> "none"]

\* UserRepository.GetByEmail: WHERE email = $1 AND is_deleted = FALSE
UserGetByEmail(email) ==
  LET hit == {u \in Users : users[u].email = email /\ users[u].is_deleted = FALSE}
  IN IF hit # {}
     THEN LET u == CHOOSE x \in hit : TRUE IN [found |-> TRUE, id |-> u, user |-> users[u]]
     ELSE [found |-> FALSE, id |-> "none", user |-> "none"]

\* UserUseCase.UpdateUser with req.Status set: GetByID, then UserRepository.Update
UpdateUser(userID, status) ==
  /\ UserGetByID(userID).found
  /\ users' = [users EXCEPT ![userID].status = status]
  /\ lastCheck' = NoCheck
  /\ lastOp' = NoOp
  /\ UNCHANGED <<roles, groups, permissions, user_roles, group_roles, user_groups,
                 role_permissions>>
  /\ UNCHANGED <<svcVars, refresh_tokens, now, uuidNext, issued, rt, rotated, logins>>

\* UserUseCase.DeleteUser: GetByID, then UserRepository.Delete (soft delete)
DeleteUser(userID) ==
  /\ UserGetByID(userID).found
  /\ users' = [users EXCEPT ![userID].is_deleted = TRUE]
  /\ lastCheck' = NoCheck
  /\ lastOp' = NoOp
  /\ UNCHANGED <<roles, groups, permissions, user_roles, group_roles, user_groups,
                 role_permissions>>
  /\ UNCHANGED <<svcVars, refresh_tokens, now, uuidNext, issued, rt, rotated, logins>>

NextPrincipal ==
  \/ \E r \in Roles, p \in PermIds : AssignToRole(r, p)
  \/ \E u \in Users, r \in Roles : AssignToUser(u, r)
  \/ \E g \in Groups, r \in Roles : AssignToGroup(g, r)
  \/ \E g \in Groups, u \in Users : AddMember(g, u)
  \/ \E u \in Users, st \in UserStatuses : UpdateUser(u, st)
  \/ \E u \in Users : DeleteUser(u)
  \/ \E u \in Users, res \in Resources, act \in Actions : CheckPermission(u, res, act)

SpecPrincipal == InitGraph /\ [][NextPrincipal]_vars

(***************************************************************************)
(* pkg/jwt: signing and verification of the tokens                         *)
(***************************************************************************)
Issuer == "aras-auth"
SigningKey == "HS256:configured-secret"

\* claims {principal_id, email, issued_at, expires_at, issuer}, signed
JWTGenerateAccessToken(userID, email) ==
  [typ |-> "access", user_id |-> userID, email |-> email, token_id |-> 0,
   iat |-> now, exp |-> now + AccessExpiry, iss |-> Issuer, sig |-> SigningKey]

\* claims {principal_id, token_id, issued_at, expires_at, issuer}, signed; the
\* token id is a fresh random uuid drawn inside the package
JWTGenerateRefreshToken(userID) ==
  [typ |-> "refresh", user_id |-> userID, email |-> "", token_id |-> uuidNext,
   iat |-> now, exp |-> now + refreshExpiry, iss |-> Issuer, sig |-> SigningKey]

\* verifies signature and expiry
JWTValidate(token, typ) ==
  IF token.typ # typ \/ token.sig # SigningKey THEN "token is malformed or badly signed"
  ELSE IF ~(now < token.exp) THEN "token is expired"
  ELSE "none"

\* a refresh token signed with another key
ForgedRefresh ==
  [typ |-> "refresh", user_id |-> "u1", email |-> "", token_id |-> 0,
   iat |-> 0, exp |-> MaxTime + RefreshExpiry + 1, iss |-> Issuer, sig |-> "HS256:other-secret"]

(***************************************************************************)
(* TokenRepository                                                         *)
(***************************************************************************)
\* faulty variant: the expiry of the record is not looked at
TokenGetByTokenHashAnyExpiry(tokenHash) ==
  {rec \in refresh_tokens : rec.token_hash = tokenHash} # {}

\* SELECT ... WHERE token_hash = $1 AND expires_at > NOW()
TokenGetByTokenHash(tokenHash) ==
  {rec \in refresh_tokens : rec.token_hash = tokenHash /\ rec.expires_at > now} # {}

\* faulty variant: deleting no row is a success
TokenDeleteIdempotent(id) ==
  [err |-> "none", store |-> {rec \in refresh_tokens : rec.id # id}]

\* DELETE FROM refresh_tokens WHERE id = $1; no row affected is an error
TokenDelete(id) ==
  IF {rec \in refresh_tokens : rec.id = id} = {}
  THEN [err |-> "refresh token not found", store |-> refresh_tokens]
  ELSE [err |-> "none", store |-> {rec \in refresh_tokens : rec.id # id}]

(***************************************************************************)
(* JWTService                                                              *)
(***************************************************************************)
\* fmt.Sprintf("%x", sha256.Sum256(token))
hashToken(token) == <<"sha256", token>>

GenerateAccessToken(userID, email) == JWTGenerateAccessToken(userID, email)

\* the signed token, and the record GenerateRefreshToken creates for it: the
\* record's id is a second uuid.New(), drawn after the token was signed
GenerateRefreshToken(userID) ==
  LET tokenString == JWTGenerateRefreshToken(userID)
      tokenID == uuidNext + 1
  IN [token |-> tokenString,
      record |-> [id |-> tokenID, user_id |-> userID,
                  token_hash |-> hashToken(tokenString),
                  expires_at |-> now + RefreshRecordLifetime]]

NoClaims == [err |-> "none", UserID |-> "none", Email |-> "", TokenID |-> 0, ExpiresAt |-> 0]

\* faulty variant: the principal is looked up and has to be active
ValidateAccessTokenCheckingUser(token) ==
  LET err == JWTValidate(token, "access")
  IN IF err # "none" THEN [NoClaims EXCEPT !.err = err]
     ELSE IF ~UserGetByID(token.user_id).found
             \/ UserGetByID(token.user_id).user.status # UserStatusActive
     THEN [NoClaims EXCEPT !.err = "user account is not active"]
     ELSE [err |-> "none", UserID |-> token.user_id, Email |-> token.email,
           TokenID |-> 0, ExpiresAt |-> token.exp]

ValidateAccessToken(token) ==
  LET err == JWTValidate(token, "access")
  IN IF err # "none" THEN [NoClaims EXCEPT !.err = err]
     ELSE [err |-> "none", UserID |-> token.user_id, Email |-> token.email,
           TokenID |-> 0, ExpiresAt |-> token.exp]

ValidateRefreshToken(token) ==
  LET err == JWTValidate(token, "refresh")
  IN IF err # "none" THEN [NoClaims EXCEPT !.err = err]
     ELSE IF ~TokenGetByTokenHash(hashToken(token))
     THEN [NoClaims EXCEPT !.err = "refresh token not found or expired"]
     ELSE [err |-> "none", UserID |-> token.user_id, Email |-> "",
           TokenID |-> token.token_id, ExpiresAt |-> token.exp]

\* parses the token and deletes the record whose id is the embedded token id
RevokeRefreshToken(token) ==
  LET err == JWTValidate(token, "refresh")
  IN IF err # "none" THEN [err |-> err, store |-> refresh_tokens]
     ELSE TokenDelete(token.token_id)

NoIntrospection ==
  [Active |-> FALSE, UserID |-> "none", Email |-> "", ExpiresAt |-> 0, Scope |-> "",
   err |-> "none"]

\* faulty variant: the email claim is not copied into the introspection result
IntrospectTokenWithoutEmail(token) ==
  LET claims == ValidateAccessToken(token)
  IN IF claims.err # "none"
     THEN NoIntrospection
     ELSE [Active |-> TRUE, UserID |-> claims.UserID, Email |-> "",
           ExpiresAt |-> claims.ExpiresAt, Scope |-> "read write", err |-> "none"]

\* faulty variant: the validation error is handed on to the caller
IntrospectTokenPropagatingError(token) ==
  LET claims == ValidateAccessToken(token)
  IN IF claims.err # "none"
     THEN [NoIntrospection EXCEPT !.err = claims.err]
     ELSE [Active |-> TRUE, UserID |-> claims.UserID, Email |-> claims.Email,
           ExpiresAt |-> claims.ExpiresAt, Scope |-> "read write", err |-> "none"]

\* the result and the error IntrospectToken returns
IntrospectToken(token) ==
  LET claims == ValidateAccessToken(token)
  IN IF claims.err # "none"
     THEN NoIntrospection
     ELSE [Active |-> TRUE, UserID |-> claims.UserID, Email |-> claims.Email,
           ExpiresAt |-> claims.ExpiresAt, Scope |-> "read write", err |-> "none"]

(***************************************************************************)
(* LocalProvider.Authenticate and AuthUseCase.Login                        *)
(***************************************************************************)
\* faulty variant: the status of the account is not looked at
AuthenticateAnyStatus(username, pwd) ==
  LET f == UserGetByEmail(username)
  IN IF ~f.found THEN [err |-> "invalid credentials", id |-> "none"]
     ELSE IF ~VerifyPassword(f.user.password_hash, pwd)
     THEN [err |-> "invalid credentials", id |-> "none"]
     ELSE [err |-> "none", id |-> f.id]

Authenticate(username, pwd) ==
  LET f == UserGetByEmail(username)
  IN IF ~f.found THEN [err |-> "invalid credentials", id |-> "none"]
     ELSE IF ~VerifyPassword(f.user.password_hash, pwd)
     THEN [err |-> "invalid credentials", id |-> "none"]
     ELSE IF f.user.status # UserStatusActive
     THEN [err |-> "account is not active", id |-> "none"]
     ELSE [err |-> "none", id |-> f.id]

\* faulty variant: the provider's error is handed on to the caller
LoginAuthErrorPassedOn(authErr) == authErr

\* if err != nil { return nil, fmt.Errorf("invalid credentials") }
LoginAuthError(authErr) == "invalid credentials"

\* user, err := provider.Authenticate(ctx, req.Email, req.Password) and the
\* error Login returns for it
LoginResult(email, pwd) ==
  LET auth == Authenticate(email, pwd)
  IN IF auth.err # "none"
     THEN [err |-> LoginAuthError(auth.err), id |-> "none"]
     ELSE [err |-> "none", id |-> auth.id]

\* AuthUseCase.Login through the default provider (the local provider that
\* main registers at start-up)
Login(email, pwd) ==
  LET auth == LoginResult(email, pwd)
  IN /\ IF auth.err # "none"
        THEN /\ lastOp' = [NoOp EXCEPT !.op = "Login", !.email = email, !.password = pwd,
                                       !.err = auth.err]
             /\ UNCHANGED <<refresh_tokens, uuidNext, issued, logins>>
        ELSE LET accessToken == GenerateAccessToken(auth.id, users[auth.id].email)
                 g == GenerateRefreshToken(auth.id)
             IN /\ uuidNext + 1 <= 2 * MaxTokens
                /\ refresh_tokens' = refresh_tokens \cup {g.record}
                /\ uuidNext' = uuidNext + 2
                /\ issued' = issued \cup {g.token}
                /\ logins' = logins \cup {[email |-> email, access |-> accessToken,
                                           refresh |-> g.token]}
                /\ lastOp' = [NoOp EXCEPT !.op = "Login", !.email = email, !.password = pwd,
                                          !.access = accessToken, !.refresh = g.token]
     /\ UNCHANGED <<svcVars, users, authzVars, now, rt, rotated>>

(***************************************************************************)
(* AuthUseCase.RefreshToken, one store access per step; the calls of two   *)
(* clients interleave between the steps                                    *)
(***************************************************************************)
Failed(c, token, msg) ==
  [rt EXCEPT ![c] = [IdleCall EXCEPT !.pc = "done", !.token = token, !.err = msg,
                                     !.reuse = token \in rotated]]

\* claims, err := uc.tokenService.ValidateRefreshToken(refreshToken)
RefreshValidate(c, token) ==
  /\ rt[c].pc \in {"idle", "done"}
  /\ LET claims == ValidateRefreshToken(token)
     IN rt' = IF claims.err # "none"
              THEN Failed(c, token, "invalid refresh token")
              ELSE [rt EXCEPT ![c] = [IdleCall EXCEPT !.pc = "get_user", !.token = token,
                                                      !.user = claims.UserID,
                                                      !.reuse = token \in rotated]]
  /\ lastOp' = NoOp
  /\ UNCHANGED <<svcVars, users, authzVars, refresh_tokens, now, uuidNext, issued, rotated, logins>>

\* faulty variant: the status of the principal is not looked at
RefreshGetUserAnyStatus(c) ==
  /\ rt[c].pc = "get_user"
  /\ LET f == UserGetByID(rt[c].user)
     IN rt' = IF ~f.found
              THEN [rt EXCEPT ![c].pc = "done", ![c].err = "user not found"]
              ELSE [rt EXCEPT ![c].pc = "issue"]
  /\ lastOp' = NoOp
  /\ UNCHANGED <<svcVars, users, authzVars, refresh_tokens, now, uuidNext, issued, rotated, logins>>

\* user, err := uc.userRepo.GetByID(claims.UserID); the status check
RefreshGetUser(c) ==
  /\ rt[c].pc = "get_user"
  /\ LET f == UserGetByID(rt[c].user)
     IN rt' = IF ~f.found
              THEN [rt EXCEPT ![c].pc = "done", ![c].err = "user not found"]
              ELSE IF f.user.status # UserStatusActive
              THEN [rt EXCEPT ![c].pc = "done", ![c].err = "user account is not active"]
              ELSE [rt EXCEPT ![c].pc = "issue"]
  /\ lastOp' = NoOp
  /\ UNCHANGED <<svcVars, users, authzVars, refresh_tokens, now, uuidNext, issued, rotated, logins>>

\* GenerateAccessToken, then GenerateRefreshToken (token rotation)
RefreshIssue(c) ==
  /\ rt[c].pc = "issue"
  /\ uuidNext + 1 <= 2 * MaxTokens
  /\ LET accessToken == GenerateAccessToken(rt[c].user, users[rt[c].user].email)
         g == GenerateRefreshToken(rt[c].user)
     IN /\ refresh_tokens' = refresh_tokens \cup {g.record}
        /\ issued' = issued \cup {g.token}
        /\ rt' = [rt EXCEPT ![c].pc = "revoke", ![c].access = accessToken,
                            ![c].refresh = g.token]
  /\ uuidNext' = uuidNext + 2
  /\ lastOp' = NoOp
  /\ UNCHANGED <<svcVars, users, authzVars, now, rotated, logins>>

\* faulty variant: an error of the revocation fails the call
RefreshRevokeSurfacingError(c) ==
  /\ rt[c].pc = "revoke"
  /\ refresh_tokens' = RevokeRefreshToken(rt[c].token).store
  /\ rt' = IF RevokeRefreshToken(rt[c].token).err # "none"
           THEN [rt EXCEPT ![c].pc = "done", ![c].err = "failed to revoke refresh token",
                           ![c].access = NoToken, ![c].refresh = NoToken]
           ELSE [rt EXCEPT ![c].pc = "done"]
  /\ rotated' = rotated \cup {rt[c].token}
  /\ lastOp' = NoOp
  /\ UNCHANGED <<svcVars, users, authzVars, now, uuidNext, issued, logins>>

\* RevokeRefreshToken(refreshToken), its error only logged; the pair is returned
RefreshRevoke(c) ==
  /\ rt[c].pc = "revoke"
  /\ refresh_tokens' = RevokeRefreshToken(rt[c].token).store
  /\ rt' = [rt EXCEPT ![c].pc = "done"]
  /\ rotated' = rotated \cup {rt[c].token}
  /\ lastOp' = NoOp
  /\ UNCHANGED <<svcVars, users, authzVars, now, uuidNext, issued, logins>>

\* JWTService.RevokeRefreshToken called on its own
Revoke(token) ==
  /\ LET r == RevokeRefreshToken(token)
     IN /\ refresh_tokens' = r.store
        /\ lastOp' = [NoOp EXCEPT !.op = "RevokeRefreshToken", !.token = token, !.err = r.err]
  /\ UNCHANGED <<svcVars, users, authzVars, now, uuidNext, issued, rt, rotated, logins>>

\* AuthUseCase.Logout
Logout(token) ==
  /\ LET r == RevokeRefreshToken(token)
     IN /\ refresh_tokens' = r.store
        /\ lastOp' = [NoOp EXCEPT !.op = "Logout", !.token = token, !.err = r.err]
  /\ UNCHANGED <<svcVars, users, authzVars, now, uuidNext, issued, rt, rotated, logins>>

\* the clock advances
Tick ==
  /\ now < MaxTime
  /\ now' = now + 1
  /\ lastOp' = NoOp
  /\ UNCHANGED <<svcVars, users, authzVars, refresh_tokens, uuidNext, issued, rt, rotated, logins>>

PresentedTokens == issued \cup {ForgedRefresh}

NextLogin ==
  \/ \E e \in LoginNames, pw \in Passwords : Login(e, pw)
  \/ \E u \in Users, st \in UserStatuses : UpdateUser(u, st)
  \/ \E u \in Users : DeleteUser(u)
  \/ Tick

SpecLogin == InitGraph /\ [][NextLogin]_vars

NextRotate ==
  \/ \E u \in Users : Login(EmailOf(u), PasswordOf(u))
  \/ \E c \in Clients, t \in PresentedTokens : RefreshValidate(c, t)
  \/ \E c \in Clients : RefreshGetUser(c)
  \/ \E c \in Clients : RefreshIssue(c)
  \/ \E c \in Clients : RefreshRevoke(c)
  \/ \E t \in PresentedTokens : Revoke(t)
  \/ \E t \in PresentedTokens : Logout(t)
  \/ Tick

SpecRotate == InitGraph /\ [][NextRotate]_vars

(***************************************************************************)
(* A session: one client logs in, validates, rotates and logs out while    *)
(* its account is suspended, re-activated or deleted; and the token        *)
(* service constructed with any of the refresh lifetimes                   *)
(***************************************************************************)
RefreshLifetimes == {1, 2, 3}

\* a well-signed refresh token for which no record was ever stored
UnstoredRefresh ==
  [typ |-> "refresh", user_id |-> "u1", email |-> "", token_id |-> 0,
   iat |-> 0, exp |-> MaxTime + 1, iss |-> Issuer, sig |-> SigningKey]

\* an access token signed with another key
ForgedAccess ==
  [typ |-> "access", user_id |-> "u1", email |-> "u1@x", token_id |-> 0,
   iat |-> 0, exp |-> MaxTime + 1, iss |-> Issuer, sig |-> "HS256:other-secret"]

PresentedRefreshTokens == issued \cup {ForgedRefresh, UnstoredRefresh}
PresentedAccessTokens ==
  {l.access : l \in logins} \cup {l.refresh : l \in logins} \cup {ForgedAccess}

SessionUnchanged == UNCHANGED <<svcVars, users, authzVars, now, uuidNext, issued, rt, rotated, logins>>

\* JWTService.GenerateAccessToken called on its own
IssueAccessToken(userID) ==
  /\ UserGetByID(userID).found
  /\ lastOp' = [NoOp EXCEPT !.op = "GenerateAccessToken",
                            !.access = GenerateAccessToken(userID, users[userID].email)]
  /\ UNCHANGED refresh_tokens
  /\ SessionUnchanged

\* JWTService.ValidateAccessToken called on its own (the auth middleware)
ValidateAccess(token) ==
  /\ lastOp' = [NoOp EXCEPT !.op = "ValidateAccessToken", !.token = token,
                            !.err = ValidateAccessToken(token).err,
                            !.result = ValidateAccessToken(token)]
  /\ UNCHANGED refresh_tokens
  /\ SessionUnchanged

\* JWTService.IntrospectToken
Introspect(token) ==
  /\ lastOp' = [NoOp EXCEPT !.op = "IntrospectToken", !.token = token,
                            !.err = IntrospectToken(token).err,
                            !.result = IntrospectToken(token)]
  /\ UNCHANGED refresh_tokens
  /\ SessionUnchanged

\* JWTService.ValidateRefreshToken called on its own
ValidateRefresh(token) ==
  /\ lastOp' = [NoOp EXCEPT !.op = "ValidateRefreshToken", !.token = token,
                            !.err = ValidateRefreshToken(token).err,
                            !.result = ValidateRefreshToken(token)]
  /\ UNCHANGED refresh_tokens
  /\ SessionUnchanged

\* faulty variant: the delete has no WHERE clause
RevokeAllUserTokensOfEveryone(userID) ==
  /\ refresh_tokens' = {}
  /\ lastOp' = [NoOp EXCEPT !.op = "RevokeAllUserTokens", !.user = userID]
  /\ SessionUnchanged

\* JWTService.RevokeAllUserTokens: DELETE FROM refresh_tokens WHERE user_id = $1
RevokeAllUserTokens(userID) ==
  /\ refresh_tokens' = {rec \in refresh_tokens : rec.user_id # userID}
  /\ lastOp' = [NoOp EXCEPT !.op = "RevokeAllUserTokens", !.user = userID]
  /\ SessionUnchanged

\* TokenRepository.DeleteExpired: DELETE FROM refresh_tokens WHERE expires_at < NOW()
DeleteExpired ==
  /\ refresh_tokens' = {rec \in refresh_tokens : ~(rec.expires_at < now)}
  /\ lastOp' = [NoOp EXCEPT !.op = "DeleteExpired"]
  /\ SessionUnchanged

NextSession ==
  \/ Login(EmailOf("u1"), PasswordOf("u1"))
  \/ \E t \in PresentedRefreshTokens : RefreshValidate("c1", t)
  \/ RefreshGetUser("c1")
  \/ RefreshIssue("c1")
  \/ RefreshRevoke("c1")
  \/ \E st \in {UserStatusActive, UserStatusSuspended} : UpdateUser("u1", st)
  \/ DeleteUser("u1")
  \/ RevokeAllUserTokens("u1")
  \/ Tick

SpecSession == InitGraph /\ [][NextSession]_vars

\* the access tokens of a session are validated and introspected while the
\* session is logged out, revoked and rotated and the account is suspended
NextAccess ==
  \/ Login(EmailOf("u1"), PasswordOf("u1"))
  \/ IssueAccessToken("u1")
  \/ \E t \in {l.access : l \in logins} : ValidateAccess(t)
  \/ \E t \in {l.access : l \in logins} : Introspect(t)
  \/ \E l \in logins : RefreshValidate("c1", l.refresh)
  \/ RefreshGetUser("c1")
  \/ RefreshIssue("c1")
  \/ RefreshRevoke("c1")
  \/ \E l \in logins : Logout(l.refresh)
  \/ RevokeAllUserTokens("u1")
  \/ UpdateUser("u1", UserStatusSuspended)
  \/ Tick

SpecAccess == InitGraph /\ [][NextAccess]_vars

\* NewJWTService(secretKey, accessExpiry, refreshExpiry, tokenRepo) with any
\* configured refresh lifetime
InitConfigured ==
  /\ InitUsers /\ InitAuthz /\ InitTok
  /\ refreshExpiry \in RefreshLifetimes
  /\ providers = [n \in {"local"} |-> LocalProvider]
  /\ defaultProvider = "local"
  /\ mu = [writer |-> "none", readers |-> {}]
  /\ call = [t \in Threads |-> IdleRegistryCall]
  /\ registered = <<LocalProvider>>

NextConfigured ==
  \/ \E u \in Users : Login(EmailOf(u), PasswordOf(u))
  \/ \E u \in Users : RevokeAllUserTokens(u)
  \/ DeleteExpired
  \/ \E t \in PresentedAccessTokens : Introspect(t)
  \/ \E t \in PresentedRefreshTokens : ValidateRefresh(t)
  \/ Tick

SpecConfigured == InitConfigured /\ [][NextConfigured]_vars

(***************************************************************************)
(* ProviderRegistry: every method is a sequence of steps between taking    *)
(* and releasing r.mu; the calls of the threads interleave between steps   *)
(***************************************************************************)
RegUnchanged == UNCHANGED <<users, authzVars, tokVars, refreshExpiry>>

\* sync.RWMutex: Lock waits for the writer and all readers to leave, RLock
\* waits for the writer to leave
CanLockUnguarded == TRUE
CanLock == mu.writer = "none" /\ mu.readers = {}
CanRLock == mu.writer = "none"

InFlight(t) == call[t].pc \notin {"idle", "returned"}

\* a thread calls RegisterProvider(provider) and waits for r.mu.Lock()
RegCall(t, provider) ==
  /\ ~InFlight(t)
  /\ call' = [call EXCEPT ![t] = [IdleRegistryCall EXCEPT !.pc = "lock",
                                                          !.op = "RegisterProvider",
                                                          !.provider = provider]]
  /\ UNCHANGED <<providers, defaultProvider, mu, registered>>
  /\ RegUnchanged

\* r.mu.Lock()
RegLock(t) ==
  /\ call[t].pc = "lock"
  /\ CanLock
  /\ mu' = [mu EXCEPT !.writer = t]
  /\ call' = [call EXCEPT ![t].pc = "check",
                          ![t].before = [providers |-> providers,
                                         defaultProvider |-> defaultProvider]]
  /\ UNCHANGED <<providers, defaultProvider, registered>>
  /\ RegUnchanged

\* faulty variant: the duplicate test is left out
RegCheckNoDuplicateTest(t) ==
  /\ call[t].pc = "check"
  /\ LET name == GetProviderName(call[t].provider)
     IN call' = IF name = ""
                THEN [call EXCEPT ![t].pc = "unlock", ![t].name = name,
                                  ![t].err = "provider name cannot be empty"]
                ELSE [call EXCEPT ![t].pc = "insert", ![t].name = name]
  /\ UNCHANGED <<providers, defaultProvider, mu, registered>>
  /\ RegUnchanged

\* name := provider.GetProviderName(); the empty-name and the duplicate test
RegCheck(t) ==
  /\ call[t].pc = "check"
  /\ LET name == GetProviderName(call[t].provider)
     IN call' = IF name = ""
                THEN [call EXCEPT ![t].pc = "unlock", ![t].name = name,
                                  ![t].err = "provider name cannot be empty"]
                ELSE IF name \in DOMAIN providers
                THEN [call EXCEPT ![t].pc = "unlock", ![t].name = name,
                                  ![t].err = "provider already registered"]
                ELSE [call EXCEPT ![t].pc = "insert", ![t].name = name]
  /\ UNCHANGED <<providers, defaultProvider, mu, registered>>
  /\ RegUnchanged

\* r.providers[name] = provider
RegInsert(t) ==
  /\ call[t].pc = "insert"
  /\ providers' = [n \in DOMAIN providers \cup {call[t].name} |->
                     IF n = call[t].name THEN call[t].provider ELSE providers[n]]
  /\ call' = [call EXCEPT ![t].pc = "default"]
  /\ UNCHANGED <<defaultProvider, mu, registered>>
  /\ RegUnchanged

\* faulty variant: every registration becomes the default
RegSetDefaultAlways(t) ==
  /\ call[t].pc = "default"
  /\ defaultProvider' = call[t].name
  /\ call' = [call EXCEPT ![t].pc = "unlock"]
  /\ UNCHANGED <<providers, mu, registered>>
  /\ RegUnchanged

\* if r.defaultProvider == "" || name == "local" { r.defaultProvider = name }
RegSetDefault(t) ==
  /\ call[t].pc = "default"
  /\ defaultProvider' = IF defaultProvider = "" \/ call[t].name = "local"
                        THEN call[t].name
                        ELSE defaultProvider
  /\ call' = [call EXCEPT ![t].pc = "unlock"]
  /\ UNCHANGED <<providers, mu, registered>>
  /\ RegUnchanged

\* the deferred r.mu.Unlock() and the return
RegUnlock(t) ==
  /\ call[t].pc = "unlock"
  /\ mu' = [mu EXCEPT !.writer = "none"]
  /\ call' = [call EXCEPT ![t].pc = "returned"]
  /\ registered' = IF call[t].err = "none"
                   THEN Append(registered, call[t].provider)
                   ELSE registered
  /\ UNCHANGED <<providers, defaultProvider>>
  /\ RegUnchanged

ReadOps == {"GetProvider", "GetDefaultProvider", "ListProviders", "GetEnabledProviders"}
ProviderNames == {"local", "ldap", "oauth"}

\* the result of GetProvider on a map
GetProvider(provs, name) ==
  IF name \notin DOMAIN provs
  THEN [result |-> {}, err |-> "provider not found"]
  ELSE IF ~IsEnabled(provs[name])
  THEN [result |-> {}, err |-> "provider is disabled"]
  ELSE [result |-> {provs[name]}, err |-> "none"]

\* the result of GetDefaultProvider on a map and a default name; {} is nil
GetDefaultProvider(provs, def) ==
  IF def = "" THEN {}
  ELSE IF def \notin DOMAIN provs \/ ~IsEnabled(provs[def]) THEN {}
  ELSE {provs[def]}

ListProviders(provs) == {provs[n] : n \in DOMAIN provs}
GetEnabledProviders(provs) == {provs[n] : n \in {m \in DOMAIN provs : IsEnabled(provs[m])}}

\* a thread calls one of the reading methods and waits for r.mu.RLock()
ReadCall(t, op, name) ==
  /\ ~InFlight(t)
  /\ call' = [call EXCEPT ![t] = [IdleRegistryCall EXCEPT !.pc = "rlock", !.op = op,
                                                          !.name = name]]
  /\ UNCHANGED <<providers, defaultProvider, mu, registered>>
  /\ RegUnchanged

\* r.mu.RLock()
ReadLock(t) ==
  /\ call[t].pc = "rlock"
  /\ CanRLock
  /\ mu' = [mu EXCEPT !.readers = @ \cup {t}]
  /\ call' = [call EXCEPT ![t].pc = "read",
                          ![t].before = [providers |-> providers,
                                         defaultProvider |-> defaultProvider]]
  /\ UNCHANGED <<providers, defaultProvider, registered>>
  /\ RegUnchanged

\* the body of the reading method
ReadBody(t) ==
  /\ call[t].pc = "read"
  /\ call' = [call EXCEPT
       ![t].pc = "runlock",
       ![t].result = CASE call[t].op = "GetProvider" ->
                            GetProvider(providers, call[t].name).result
                       [] call[t].op = "GetDefaultProvider" ->
                            GetDefaultProvider(providers, defaultProvider)
                       [] call[t].op = "ListProviders" -> ListProviders(providers)
                       [] OTHER -> GetEnabledProviders(providers),
       ![t].err = IF call[t].op = "GetProvider"
                  THEN GetProvider(providers, call[t].name).err
                  ELSE "none"]
  /\ UNCHANGED <<providers, defaultProvider, mu, registered>>
  /\ RegUnchanged

\* the deferred r.mu.RUnlock() and the return
ReadUnlock(t) ==
  /\ call[t].pc = "runlock"
  /\ mu' = [mu EXCEPT !.readers = @ \ {t}]
  /\ call' = [call EXCEPT ![t].pc = "returned"]
  /\ UNCHANGED <<providers, defaultProvider, registered>>
  /\ RegUnchanged

InitRegistry == InitUsers /\ InitAuthz /\ InitTok /\ refreshExpiry = RefreshExpiry
                /\ NewProviderRegistry

NextRegistry ==
  \/ \E t \in Threads, provider \in Providers : RegCall(t, provider)
  \/ \E t \in Threads : RegLock(t)
  \/ \E t \in Threads : RegCheck(t)
  \/ \E t \in Threads : RegInsert(t)
  \/ \E t \in Threads : RegSetDefault(t)
  \/ \E t \in Threads : RegUnlock(t)
  \/ \E t \in Threads, op \in ReadOps \ {"GetProvider"} : ReadCall(t, op, "")
  \/ \E t \in Threads, name \in ProviderNames : ReadCall(t, "GetProvider", name)
  \/ \E t \in Threads : ReadLock(t)
  \/ \E t \in Threads : ReadBody(t)
  \/ \E t \in Threads : ReadUnlock(t)

SpecRegistry == InitRegistry /\ [][NextRegistry]_vars

(***************************************************************************)
(* Password change: AuthUseCase.ChangePassword and, below it,              *)
(* LocalProvider.VerifyPassword / ChangePassword and                       *)
(* UserRepository.UpdatePassword                                           *)
(***************************************************************************)
\* the new passwords callers present, of length 5, 7, 8 and 10
NewPasswords == {"short", "1234567", "12345678", "new-secret"}
CurrentPasswords == Passwords \cup {"12345678"}

\* UserRepository.UpdatePassword: UPDATE users SET password_hash = $2
\* WHERE id = $1 (soft-deleted rows included); no row is "user not found"
UserUpdatePassword(id, passwordHash) ==
  IF id \in Users
  THEN [err |-> "none", users |-> [users EXCEPT ![id].password_hash = passwordHash]]
  ELSE [err |-> "user not found", users |-> users]

\* LocalProvider.VerifyPassword: GetByID, then password.VerifyPassword
LocalVerifyPassword(userID, pwd) ==
  LET f == UserGetByID(userID)
  IN IF ~f.found THEN [valid |-> FALSE, err |-> "user not found"]
     ELSE [valid |-> VerifyPassword(f.user.password_hash, pwd), err |-> "none"]

\* LocalProvider.ChangePassword
LocalChangePassword(userID, newPassword) ==
  IF ~IsValidPassword(newPassword)
  THEN [err |-> "password does not meet requirements", users |-> users]
  ELSE UserUpdatePassword(userID, HashPassword(newPassword))

\* AuthUseCase.ChangePassword: what it returns and the users table it leaves
ChangePasswordResult(userID, currentPassword, newPassword) ==
  IF GetDefaultProvider(providers, defaultProvider) = {}
  THEN [err |-> "no identity provider available", users |-> users]
  ELSE LET v == LocalVerifyPassword(userID, currentPassword)
       IN IF v.err # "none" \/ ~v.valid
          THEN [err |-> "current password is incorrect", users |-> users]
          ELSE IF ~IsValidPassword(newPassword)
          THEN [err |-> "new password does not meet requirements", users |-> users]
          ELSE LocalChangePassword(userID, newPassword)

PasswordUnchanged ==
  UNCHANGED <<svcVars, authzVars, refresh_tokens, now, uuidNext, issued, rt, rotated, logins>>

\* POST /change-password: AuthUseCase.ChangePassword(ctx, userID, req)
ChangePassword(userID, currentPassword, newPassword) ==
  LET r == ChangePasswordResult(userID, currentPassword, newPassword)
  IN /\ users' = r.users
     /\ lastOp' = [NoOp EXCEPT !.op = "ChangePassword", !.user = userID,
                               !.password = currentPassword,
                               !.newPassword = newPassword, !.err = r.err]
     /\ PasswordUnchanged

\* IdentityProvider.ChangePassword called on the provider itself
ProviderChangePassword(userID, newPassword) ==
  LET r == LocalChangePassword(userID, newPassword)
  IN /\ users' = r.users
     /\ lastOp' = [NoOp EXCEPT !.op = "LocalProvider.ChangePassword", !.user = userID,
                               !.newPassword = newPassword, !.err = r.err]
     /\ PasswordUnchanged

NextPassword ==
  \/ \E u \in Users, cur \in CurrentPasswords, new \in NewPasswords :
       ChangePassword(u, cur, new)
  \/ \E u \in Users, new \in NewPasswords : ProviderChangePassword(u, new)
  \/ \E u \in Users, st \in {UserStatusActive, UserStatusSuspended} : UpdateUser(u, st)
  \/ \E u \in Users : DeleteUser(u)

SpecPassword == InitGraph /\ [][NextPassword]_vars

(***************************************************************************)
(* Revocation: RevokeRefreshToken, Logout and RevokeAllUserTokens on the   *)
(* tokens of both principals while records are purged and the clock runs   *)
(***************************************************************************)
NextRevoke ==
  \/ \E u \in Users : Login(EmailOf(u), PasswordOf(u))
  \/ \E t \in PresentedRefreshTokens : Revoke(t)
  \/ \E t \in issued : Logout(t)
  \/ \E u \in Users : RevokeAllUserTokens(u)
  \/ DeleteExpired
  \/ Tick

SpecRevoke == InitGraph /\ [][NextRevoke]_vars

(***************************************************************************)
(* GroupUseCase.UpdateGroup / DeleteGroup over GroupRepository. The groups *)
(* table carries both soft-delete columns: deleted_at, which               *)
(* GroupRepository reads and writes, and is_deleted, which                 *)
(* CheckUserPermission reads.                                              *)
(***************************************************************************)
\* GroupRepository.GetByID: WHERE id = $1 AND deleted_at IS NULL
GroupGetByID(id) ==
  IF id \in Groups /\ groups[id].deleted_at = "NULL"
  THEN [found |-> TRUE, group |-> groups[id]]
  ELSE [found |-> FALSE, group |-> "none"]

\* GroupRepository.Update: UPDATE groups SET name = $2, description = $3,
\* updated_at = NOW() WHERE id = $1; group.IsActive is not among the columns
GroupUpdate(id, group) ==
  IF id \in Groups
  THEN [err |-> "none", groups |-> groups]
  ELSE [err |-> "group not found", groups |-> groups]

\* GroupRepository.Delete: UPDATE groups SET deleted_at = NOW()
\* WHERE id = $1 AND deleted_at IS NULL
GroupDelete(id) ==
  IF id \in Groups /\ groups[id].deleted_at = "NULL"
  THEN [err |-> "none", groups |-> [groups EXCEPT ![id].deleted_at = "set"]]
  ELSE [err |-> "group not found or already deleted", groups |-> groups]

GroupUnchanged ==
  UNCHANGED <<svcVars, users, roles, permissions, user_roles, group_roles, user_groups,
              role_permissions, refresh_tokens, now, uuidNext, issued, rt, rotated, logins>>

\* GroupUseCase.UpdateGroup with req.IsActive set: the returned group carries
\* the requested flag
UpdateGroup(groupID, isActive) ==
  LET f == GroupGetByID(groupID)
      group == [f.group EXCEPT !.is_active = isActive]
      r == IF f.found THEN GroupUpdate(groupID, group) ELSE [err |-> "group not found", groups |-> groups]
  IN /\ groups' = r.groups
     /\ lastOp' = [NoOp EXCEPT !.op = "UpdateGroup", !.group = groupID, !.err = r.err,
                               !.result = [err |-> r.err,
                                           is_active |-> IF r.err = "none" THEN group.is_active
                                                         ELSE isActive,
                                           requested |-> isActive]]
     /\ lastCheck' = NoCheck
     /\ GroupUnchanged

\* GroupUseCase.DeleteGroup: GetByID, then GroupRepository.Delete
DeleteGroup(groupID) ==
  LET f == GroupGetByID(groupID)
      r == IF f.found THEN GroupDelete(groupID) ELSE [err |-> "group not found", groups |-> groups]
  IN /\ groups' = r.groups
     /\ lastOp' = [NoOp EXCEPT !.op = "DeleteGroup", !.group = groupID, !.err = r.err]
     /\ lastCheck' = NoCheck
     /\ GroupUnchanged

NextGroup ==
  \/ \E r \in Roles, p \in PermIds : AssignToRole(r, p)
  \/ \E u \in Users, r \in Roles : AssignToUser(u, r)
  \/ \E g \in Groups, r \in Roles : AssignToGroup(g, r)
  \/ \E g \in Groups, u \in Users : AddMember(g, u)
  \/ \E g \in Groups, b \in BOOLEAN : UpdateGroup(g, b)
  \/ \E g \in Groups : DeleteGroup(g)
  \/ \E u \in Users, res \in Resources, act \in Actions : CheckPermission(u, res, act)

SpecGroup == InitGraph /\ [][NextGroup]_vars

(***************************************************************************)
(* RBAC middleware                                                         *)
(***************************************************************************)
\* m.permissionRepo.CheckUserPermission as the middleware sees it: the
\* answer of the query, or an error when the database call fails
CheckResult(userID, resource, action, dbUp) ==
  IF dbUp THEN [has |-> CheckUserPermission(userID, resource, action), err |-> "none"]
  ELSE [has |-> FALSE, err |-> "database error"]

\* faulty variant: a refused check still reaches the next handler
RequirePermissionOpen(userID, resource, action, dbUp) ==
  IF CheckResult(userID, resource, action, dbUp).err # "none" THEN "500" ELSE "next"

\* RBACMiddleware.RequirePermission for an authenticated request: "next" when
\* next.ServeHTTP is called, else the status written
RequirePermission(userID, resource, action, dbUp) ==
  LET c == CheckResult(userID, resource, action, dbUp)
  IN IF c.err # "none" THEN "500"
     ELSE IF ~c.has THEN "403"
     ELSE "next"

(***************************************************************************)
(* The authorization routes: AuthzHandler.RegisterRoutes mounted behind    *)
(* RequireAuth and RequirePermission("roles", "read"); the store is the    *)
(* seeded one, with a reader role and an operator role                     *)
(***************************************************************************)
RouteRoles == {"r1", "r2", "r3"}
SeededRoles == {"r1", "r2"}
RoutePermIds == {"p1", "p2"}
RouteResources == {"roles", "orders"}

InitRoutes ==
  /\ InitUsers /\ InitTok /\ InitSvc
  /\ roles = [r \in SeededRoles |-> [is_active |-> TRUE, is_deleted |-> FALSE]]
  /\ groups = [g \in Groups |-> [is_active |-> TRUE, is_deleted |-> FALSE,
                                  deleted_at |-> "NULL"]]
  /\ permissions = [p \in RoutePermIds |->
                      [resource |-> IF p = "p1" THEN "roles" ELSE "orders",
                       action |-> "read", is_active |-> TRUE, is_deleted |-> FALSE]]
  /\ user_roles = {<<"u1", "r1">>}
  /\ role_permissions = {<<"r1", "p1">>, <<"r2", "p2">>}
  /\ group_roles = {}
  /\ user_groups = {}
  /\ lastCheck = NoCheck

RoutesUnchanged ==
  UNCHANGED <<svcVars, users, groups, permissions, group_roles, user_groups,
              refresh_tokens, now, uuidNext, issued, rt, rotated, logins>>

\* a request of an authenticated caller to one of the routes: the middleware
\* decides, then the handler writes the store
AuthzRequest(caller, op, newRoles, newUserRoles, newRolePermissions) ==
  \E gate \in {RequirePermission(caller, "roles", "read", TRUE)} :
     /\ roles' = IF gate = "next" THEN newRoles ELSE roles
     /\ user_roles' = IF gate = "next" THEN newUserRoles ELSE user_roles
     /\ role_permissions' = IF gate = "next" THEN newRolePermissions ELSE role_permissions
     /\ lastOp' = [NoOp EXCEPT !.op = op, !.user = caller,
                               !.err = IF gate = "next" THEN "none" ELSE gate]
     /\ lastCheck' = NoCheck
     /\ RoutesUnchanged

\* POST /roles: AuthzUseCase.CreateRole builds the Role without IsActive and
\* RoleRepository.Create inserts role.IsActive, role.IsDeleted as they are
CreateRole(caller, id) ==
  /\ id \in RouteRoles \ DOMAIN roles
  /\ AuthzRequest(caller, "CreateRole",
                  [r \in DOMAIN roles \cup {id} |->
                     IF r = id THEN [is_active |-> FALSE, is_deleted |-> FALSE]
                     ELSE roles[r]],
                  user_roles, role_permissions)

\* DELETE /roles/{id}: AuthzUseCase.DeleteRole
DeleteRole(caller, roleID) ==
  /\ roleID \in DOMAIN roles
  /\ roles[roleID].is_deleted = FALSE
  /\ AuthzRequest(caller, "DeleteRole", [roles EXCEPT ![roleID].is_deleted = TRUE],
                  user_roles, role_permissions)

\* POST /roles/{id}/permissions: AuthzUseCase.AssignPermissionToRole
AssignPermissionToRole(caller, roleID, permissionID) ==
  /\ roleID \in DOMAIN roles
  /\ permissionID \in DOMAIN permissions
  /\ AuthzRequest(caller, "AssignPermissionToRole", roles, user_roles,
                  role_permissions \cup {<<roleID, permissionID>>})

\* POST /users/{userId}/roles: AuthzUseCase.AssignRoleToUser
AssignRoleToUser(caller, userID, roleID) ==
  /\ roleID \in DOMAIN roles
  /\ AuthzRequest(caller, "AssignRoleToUser", roles,
                  user_roles \cup {<<userID, roleID>>}, role_permissions)

\* DELETE /users/{userId}/roles/{roleId}: AuthzUseCase.RemoveRoleFromUser
RemoveRoleFromUser(caller, userID, roleID) ==
  /\ roleID \in DOMAIN roles
  /\ AuthzRequest(caller, "RemoveRoleFromUser", roles,
                  user_roles \ {<<userID, roleID>>}, role_permissions)

NextRoutes ==
  \/ \E c \in Users, r \in RouteRoles : CreateRole(c, r)
  \/ \E c \in Users, r \in RouteRoles : DeleteRole(c, r)
  \/ \E c \in Users, r \in RouteRoles, p \in RoutePermIds : AssignPermissionToRole(c, r, p)
  \/ \E c \in Users, u \in Users, r \in RouteRoles : AssignRoleToUser(c, u, r)
  \/ \E c \in Users, u \in Users, r \in RouteRoles : RemoveRoleFromUser(c, u, r)

SpecRoutes == InitRoutes /\ [][NextRoutes]_vars

(***************************************************************************)
(* The user routes: UserHandler.RegisterRoutes mounted behind RequireAuth  *)
(***************************************************************************)
\* AuthMiddleware.RequireAuth on "Authorization: Bearer <token>": the
\* user_id put into the request context, or the refusal
RequireAuth(token) ==
  LET claims == ValidateAccessToken(token)
  IN IF claims.err # "none" THEN [status |-> "401", user_id |-> "none"]
     ELSE [status |-> "next", user_id |-> claims.UserID]

UserRoutesUnchanged ==
  UNCHANGED <<svcVars, authzVars, refresh_tokens, now, uuidNext, issued, rt, rotated, logins>>

\* PUT /users/{id} with a status in the body: RequireAuth, then
\* UserHandler.UpdateUser -> UserUseCase.UpdateUser(ctx, id, req)
PutUser(token, id, status) ==
  \E auth \in {RequireAuth(token)} :
    LET f == UserGetByID(id)
        served == auth.status = "next" /\ f.found
    IN /\ users' = IF served THEN [users EXCEPT ![id].status = status] ELSE users
       /\ lastOp' = [NoOp EXCEPT !.op = "PUT /users/{id}", !.token = token,
                                 !.user = auth.user_id, !.target = id,
                                 !.err = IF auth.status # "next" THEN auth.status
                                         ELSE IF ~f.found THEN "update_failed"
                                         ELSE "none"]
       /\ UserRoutesUnchanged

\* DELETE /users/{id}: RequireAuth, then UserHandler.DeleteUser ->
\* UserUseCase.DeleteUser(ctx, id)
DeleteUserRoute(token, id) ==
  \E auth \in {RequireAuth(token)} :
    LET f == UserGetByID(id)
        served == auth.status = "next" /\ f.found
    IN /\ users' = IF served THEN [users EXCEPT ![id].is_deleted = TRUE] ELSE users
       /\ lastOp' = [NoOp EXCEPT !.op = "DELETE /users/{id}", !.token = token,
                                 !.user = auth.user_id, !.target = id,
                                 !.err = IF auth.status # "next" THEN auth.status
                                         ELSE IF ~f.found THEN "delete_failed"
                                         ELSE "none"]
       /\ UserRoutesUnchanged

NextUserRoutes ==
  \/ \E u \in Users : Login(EmailOf(u), PasswordOf(u))
  \/ \E t \in PresentedAccessTokens, id \in Users,
        st \in {UserStatusActive, UserStatusSuspended} : PutUser(t, id, st)
  \/ \E t \in PresentedAccessTokens, id \in Users : DeleteUserRoute(t, id)
  \/ Tick

SpecUserRoutes == InitGraph /\ [][NextUserRoutes]_vars

(***************************************************************************)
(* RBAC middleware over lists of "resource:action" strings. A string is a  *)
(* sequence of tokens, ":" being the separator token.                      *)
(***************************************************************************)
\* strings.Split(permission, ":"): the parts between the separators
RECURSIVE SplitAt(_, _, _, _)
SplitAt(s, i, cur, acc) ==
  IF i > Len(s) THEN Append(acc, cur)
  ELSE IF s[i] = ":" THEN SplitAt(s, i + 1, <<>>, Append(acc, cur))
  ELSE SplitAt(s, i + 1, Append(cur, s[i]), acc)

Split(s) == SplitAt(s, 1, <<>>, <<>>)

\* a part as the string handed to CheckUserPermission
PartString(part) ==
  IF Len(part) = 0 THEN "" ELSE IF Len(part) = 1 THEN part[1] ELSE part

\* the permission strings of the requests: two well-formed ones, one without
\* separator, one with two separators
PermissionStrings ==
  { <<"roles", ":", "read">>, <<"orders", ":", "read">>, <<"orders">>,
    <<"orders", ":", "read", ":", "all">> }
MaxPermissions == 2
PermissionLists ==
  UNION {[1..n -> PermissionStrings] : n \in 0..MaxPermissions}

\* the loop of RequireAnyPermission from entry i on; the query for entry
\* failAt fails (0: none does)
RECURSIVE RequireAnyFrom(_, _, _, _)
RequireAnyFrom(userID, perms, i, failAt) ==
  IF i > Len(perms) THEN "403"
  ELSE LET parts == Split(perms[i])
       IN IF Len(parts) # 2 THEN RequireAnyFrom(userID, perms, i + 1, failAt)
          ELSE LET c == CheckResult(userID, PartString(parts[1]), PartString(parts[2]),
                                    i # failAt)
               IN IF c.err # "none" THEN "500"
                  ELSE IF c.has THEN "next"
                  ELSE RequireAnyFrom(userID, perms, i + 1, failAt)

\* RBACMiddleware.RequireAnyPermission
RequireAnyPermission(userID, perms, failAt) ==
  IF userID = "none" THEN "401" ELSE RequireAnyFrom(userID, perms, 1, failAt)

\* the loop of RequireAllPermissions from entry i on
RECURSIVE RequireAllFrom(_, _, _, _)
RequireAllFrom(userID, perms, i, failAt) ==
  IF i > Len(perms) THEN "next"
  ELSE LET parts == Split(perms[i])
       IN IF Len(parts) # 2 THEN "403"
          ELSE LET c == CheckResult(userID, PartString(parts[1]), PartString(parts[2]),
                                    i # failAt)
               IN IF c.err # "none" THEN "500"
                  ELSE IF ~c.has THEN "403"
                  ELSE RequireAllFrom(userID, perms, i + 1, failAt)

\* RBACMiddleware.RequireAllPermissions
RequireAllPermissions(userID, perms, failAt) ==
  IF userID = "none" THEN "401" ELSE RequireAllFrom(userID, perms, 1, failAt)

\* a request through one of the three middlewares; ctx is the user_id of the
\* request context ("none": not set). The requests are those of one principal,
\* whose roles change between them.
Callers == {"u1", "none"}

MiddlewareUnchanged ==
  UNCHANGED <<svcVars, users, authzVars, refresh_tokens, now, uuidNext, issued, rt,
              rotated, logins>>

ThroughRequirePermission(ctx, resource, action, dbUp) ==
  /\ lastOp' = [NoOp EXCEPT !.op = "RequirePermission", !.user = ctx,
                  !.result = [outcome |-> IF ctx = "none" THEN "401"
                                          ELSE RequirePermission(ctx, resource, action, dbUp),
                              resource |-> resource, action |-> action, dbUp |-> dbUp]]
  /\ MiddlewareUnchanged

ThroughRequireAnyPermission(ctx, perms, failAt) ==
  /\ lastOp' = [NoOp EXCEPT !.op = "RequireAnyPermission", !.user = ctx,
                  !.result = [outcome |-> RequireAnyPermission(ctx, perms, failAt),
                              perms |-> perms, failAt |-> failAt]]
  /\ MiddlewareUnchanged

ThroughRequireAllPermissions(ctx, perms, failAt) ==
  /\ lastOp' = [NoOp EXCEPT !.op = "RequireAllPermissions", !.user = ctx,
                  !.result = [outcome |-> RequireAllPermissions(ctx, perms, failAt),
                              perms |-> perms, failAt |-> failAt]]
  /\ MiddlewareUnchanged

NextMiddleware ==
  \/ \E r \in SeededRoles : AssignToUser("u1", r)
  \/ \E r \in SeededRoles : RemoveFromUser("u1", r)
  \/ \E c \in Callers, res \in RouteResources, act \in Actions, dbUp \in BOOLEAN :
       ThroughRequirePermission(c, res, act, dbUp)
  \/ \E c \in Callers, perms \in PermissionLists, failAt \in 0..MaxPermissions :
       ThroughRequireAnyPermission(c, perms, failAt)
  \/ \E c \in Callers, perms \in PermissionLists, failAt \in 0..MaxPermissions :
       ThroughRequireAllPermissions(c, perms, failAt)

SpecMiddleware == InitRoutes /\ [][NextMiddleware]_vars

(***************************************************************************)
(* Properties of the permission resolver                                   *)
(***************************************************************************)
LiveRole(r) == roles[r].is_active /\ ~roles[r].is_deleted
LiveGroup(g) == groups[g].is_active /\ ~groups[g].is_deleted
LivePermission(p, res, act) ==
  /\ permissions[p].is_active /\ ~permissions[p].is_deleted
  /\ permissions[p].resource = res /\ permissions[p].action = act

\* the spec's definition of a permission held by a principal
Held(u, res, act) ==
  \E r \in Roles :
    /\ LiveRole(r)
    /\ \/ <<u, r>> \in user_roles
       \/ \E g \in Groups : LiveGroup(g) /\ <<u, g>> \in user_groups /\ <<g, r>> \in group_roles
    /\ \E p \in PermIds : <<r, p>> \in role_permissions /\ LivePermission(p, res, act)

\* C4: CheckUserPermission returns true exactly when the permission is held
\* through a live role reached directly or through a live group, and linked to
\* a live permission with that (resource, action); otherwise false.
C4_CheckIsReachability ==
  \A u \in Users, res \in Resources, act \in Actions :
    CheckUserPermission(u, res, act) = Held(u, res, act)

\* the principal's only role is deactivated, its permission edge still exists,
\* and the check answers false
C4_Witness ==
  /\ CheckUserPermission("u1", "orders", "read") = FALSE
  /\ user_groups = {}
  /\ \E r \in Roles :
       /\ {e \in user_roles : e[1] = "u1"} = {<<"u1", r>>}
       /\ roles[r].is_active = FALSE /\ roles[r].is_deleted = FALSE
       /\ <<r, "p1">> \in role_permissions
       /\ LivePermission("p1", "orders", "read")

\* the scenario of a purely group-inherited grant: P has no direct role, G is
\* its only group, R is G's only role and is linked to a live (res, act)
GroupOnlyPath(u, g, r, res, act) ==
  /\ {e \in user_roles : e[1] = u} = {}
  /\ {e \in user_groups : e[1] = u} = {<<u, g>>}
  /\ {e \in group_roles : e[1] = g} = {<<g, r>>}
  /\ ~groups[g].is_deleted
  /\ ~roles[r].is_deleted
  /\ \E p \in PermIds : <<r, p>> \in role_permissions /\ LivePermission(p, res, act)

\* C5: a group-inherited grant follows the activation of the group and of the
\* role: granted while both are active, refused once the group is deactivated,
\* refused once the role is deactivated (the group being active again), and
\* granted again when the deactivated one is reactivated.
C5_GroupGrantFollowsActivation ==
  [][\A u \in Users, g \in Groups, r \in Roles :
       (GroupOnlyPath(u, g, r, "orders", "read") /\ GroupOnlyPath(u, g, r, "orders", "read")')
       => /\ (groups[g].is_active /\ roles[r].is_active)
               => CheckUserPermission(u, "orders", "read")
          /\ ~groups'[g].is_active => ~CheckUserPermission(u, "orders", "read")'
          /\ ~roles'[r].is_active => ~CheckUserPermission(u, "orders", "read")'
          /\ (groups'[g].is_active /\ roles'[r].is_active)
               => CheckUserPermission(u, "orders", "read")']_vars

\* the last stage of the scenario: G is active, R is deactivated, the check
\* for P answers false
C5_Witness ==
  /\ CheckUserPermission("u1", "orders", "read") = FALSE
  /\ \E g \in Groups, r \in Roles :
       /\ GroupOnlyPath("u1", g, r, "orders", "read")
       /\ groups[g].is_active
       /\ ~roles[r].is_active

\* a step that adds an assignment edge and leaves the entities alone
EdgeAdded ==
  /\ \/ role_permissions' \ role_permissions # {}
     \/ user_roles' \ user_roles # {}
     \/ group_roles' \ group_roles # {}
  /\ UNCHANGED <<roles, groups, permissions, user_groups>>

\* C6: adding a role_permissions, user_roles or group_roles edge never turns a
\* true CheckUserPermission result into false.
C6_MonotonicInGrants ==
  [][EdgeAdded =>
       \A u \in Users, res \in Resources, act \in Actions :
         CheckUserPermission(u, res, act) => CheckUserPermission(u, res, act)']_vars

\* an edge was added on top of an existing grant: the principal holds the
\* permission through a second role while already holding it through a first
C6_Witness ==
  \E u \in Users :
    /\ Cardinality(DirectRows(u, "orders", "read")) = 2
    /\ Cardinality(GroupRows(u, "orders", "read")) > 0

\* C7: a principal that is not active, or is soft-deleted, is refused every
\* permission whatever roles and groups it is linked to.
C7_OnlyActivePrincipalsHold ==
  /\ \A u \in Users, res \in Resources, act \in Actions :
       (users[u].status # UserStatusActive \/ users[u].is_deleted)
         => ~CheckUserPermission(u, res, act)
  /\ (lastCheck.user \in Users
      /\ (users[lastCheck.user].status # UserStatusActive \/ users[lastCheck.user].is_deleted))
       => ~lastCheck.has_permission

(***************************************************************************)
(* Properties of rotation and revocation                                   *)
(***************************************************************************)
\* C1: a RefreshToken(T) call that starts after some RefreshToken(T) has
\* returned a new pair fails: it returns an error and issues no tokens.
C1_RotationNonReusable ==
  \A c \in Clients :
    (rt[c].pc = "done" /\ rt[c].reuse)
      => (rt[c].err # "none" /\ rt[c].access = NoToken /\ rt[c].refresh = NoToken)

\* C2: right after RevokeRefreshToken(T) or Logout(T) on an issued token whose
\* signature and embedded expiry are valid, ValidateRefreshToken(T) fails with
\* the not-found error.
C2_RevokedTokenNotFound ==
  (/\ lastOp.op \in {"RevokeRefreshToken", "Logout"}
   /\ lastOp.token \in issued
   /\ JWTValidate(lastOp.token, "refresh") = "none")
    => ValidateRefreshToken(lastOp.token).err = "refresh token not found or expired"

\* C3: of two RefreshToken calls for the same token whose steps interleave
\* (neither started after a rotation of the token had returned), at most one
\* returns a new pair.
C3_SingleUseUnderInterleaving ==
  \A c1 \in Clients, c2 \in Clients :
    (/\ c1 # c2
     /\ rt[c1].pc = "done" /\ rt[c2].pc = "done"
     /\ rt[c1].token = rt[c2].token
     /\ ~rt[c1].reuse /\ ~rt[c2].reuse)
      => ~(rt[c1].err = "none" /\ rt[c2].err = "none")

(***************************************************************************)
(* Properties of Login                                                     *)
(***************************************************************************)
\* the principal a login name stands for, whatever its state
PrincipalOf(email) == CHOOSE u \in Users : users[u].email = email

\* why a login has to be refused, told from the users table alone
FailureReason(email, pwd) ==
  IF \A u \in Users : users[u].email # email \/ users[u].is_deleted
  THEN "unknown login name"
  ELSE IF ~VerifyPassword(users[PrincipalOf(email)].password_hash, pwd)
  THEN "wrong password"
  ELSE IF users[PrincipalOf(email)].status # UserStatusActive
  THEN "account not active"
  ELSE "none"

\* C8: Login returns a pair and persists a refresh record only for a
\* non-deleted, active principal whose stored hash verifies the password; a
\* refused Login returns no token and leaves the refresh-token store unchanged.
C8_OnlyActivePrincipalsLogin ==
  [][lastOp'.op = "Login" =>
       IF lastOp'.err = "none"
       THEN /\ \E u \in Users :
                 /\ users[u].email = lastOp'.email
                 /\ ~users[u].is_deleted
                 /\ users[u].status = UserStatusActive
                 /\ VerifyPassword(users[u].password_hash, lastOp'.password)
                 /\ \E rec \in refresh_tokens' \ refresh_tokens :
                      /\ rec.user_id = u
                      /\ rec.token_hash = hashToken(lastOp'.refresh)
            /\ lastOp'.access # NoToken /\ lastOp'.refresh # NoToken
       ELSE /\ refresh_tokens' = refresh_tokens
            /\ lastOp'.access = NoToken /\ lastOp'.refresh = NoToken]_vars

\* a Login with the right password was refused because the principal is
\* soft-deleted or not active
C8_Witness ==
  /\ lastOp.op = "Login"
  /\ lastOp.err # "none"
  /\ \E u \in Users :
       /\ users[u].email = lastOp.email
       /\ VerifyPassword(users[u].password_hash, lastOp.password)
       /\ users[u].is_deleted \/ users[u].status = UserStatusSuspended

\* C9: while the access token a successful Login returned is unexpired,
\* ValidateAccessToken accepts it with the id of the principal that logged in,
\* and IntrospectToken reports it active with that principal's email.
C9_IssueValidateRoundTrip ==
  \A l \in logins :
    now < l.access.exp =>
      /\ ValidateAccessToken(l.access).err = "none"
      /\ ValidateAccessToken(l.access).UserID = PrincipalOf(l.email)
      /\ IntrospectToken(l.access).Active = TRUE
      /\ IntrospectToken(l.access).Email = l.email
      /\ IntrospectToken(l.access).Email = users[PrincipalOf(l.email)].email

\* a Login has just returned a pair whose access token is accepted
C9_Witness ==
  /\ lastOp.op = "Login"
  /\ lastOp.err = "none"
  /\ \E l \in logins : l.access = lastOp.access /\ l.email = lastOp.email
  /\ ValidateAccessToken(lastOp.access).err = "none"
  /\ IntrospectToken(lastOp.access).Active

\* C10: whatever the reason a Login is refused for (unknown login name, wrong
\* password, right password on an account that is not active), the caller
\* gets the same error.
C10_CredentialErrorsIdentical ==
  LET refused == {i \in LoginNames \X Passwords : FailureReason(i[1], i[2]) # "none"}
      errors == {LoginResult(i[1], i[2]).err : i \in refused}
  IN /\ "none" \notin errors
     /\ Cardinality(errors) <= 1
     /\ (lastOp.op = "Login" /\ FailureReason(lastOp.email, lastOp.password) # "none")
          => lastOp.err \in errors

\* a Login with the right password on an account that is not active was refused
C10_Witness ==
  /\ lastOp.op = "Login"
  /\ lastOp.err # "none"
  /\ FailureReason(lastOp.email, lastOp.password) = "account not active"

(***************************************************************************)
(* Properties of the provider registry                                     *)
(***************************************************************************)
RegisteredAs(name) == {i \in 1..Len(registered) : registered[i].name = name}

\* the provider registered first under a name
FirstRegistered(name) ==
  registered[CHOOSE i \in RegisteredAs(name) : \A j \in RegisteredAs(name) : i <= j]

\* C11: a RegisterProvider call with an empty name or with a name that is
\* already registered returns an error and leaves the provider map and the
\* default as they were, so the name still maps to the provider registered
\* first under it and GetDefaultProvider still returns that provider.
C11_FailedRegistrationChangesNothing ==
  \A t \in Threads :
    LET c == call[t]
        name == GetProviderName(c.provider)
    IN (/\ c.op = "RegisterProvider"
        /\ c.pc = "unlock"
        /\ name = "" \/ name \in DOMAIN c.before.providers)
         => /\ c.err # "none"
            /\ providers = c.before.providers
            /\ defaultProvider = c.before.defaultProvider
            /\ name # "" => providers[name] = FirstRegistered(name)
            /\ (name # "" /\ defaultProvider = name /\ IsEnabled(FirstRegistered(name)))
                 => GetDefaultProvider(providers, defaultProvider) = {FirstRegistered(name)}

\* a second provider named "local" has just been refused; the default is
\* still the first one
C11_Witness ==
  \E t \in Threads :
    /\ call[t].op = "RegisterProvider"
    /\ call[t].pc = "unlock"
    /\ call[t].err = "provider already registered"
    /\ call[t].provider.id = "B"
    /\ GetDefaultProvider(providers, defaultProvider) = {LocalProvider}

\* the default the rule designates for the registrations made so far
DesignatedDefault ==
  IF RegisteredAs("local") # {} THEN "local"
  ELSE IF registered = <<>> THEN ""
  ELSE registered[1].name

\* C12: whenever no registration is in progress the default is "local" if a
\* provider of that name was registered and otherwise the first provider
\* registered; a successful registration under another name leaves a default
\* that was already set as it was.
C12_DefaultDesignationRule ==
  /\ mu.writer = "none" => defaultProvider = DesignatedDefault
  /\ \A t \in Threads :
       (/\ call[t].op = "RegisterProvider"
        /\ call[t].pc = "unlock"
        /\ call[t].err = "none"
        /\ call[t].name # "local"
        /\ call[t].before.defaultProvider # "")
         => defaultProvider = call[t].before.defaultProvider

\* "ldap" was registered first and became the default, then "local" took the
\* default over, then "oauth" left it alone
C12_Witness ==
  /\ Len(registered) = 3
  /\ registered[1].name = "ldap"
  /\ registered[2].name = "local"
  /\ registered[3].name = "oauth"
  /\ mu.writer = "none"
  /\ defaultProvider = "local"

InRegSection(t) ==
  call[t].op = "RegisterProvider" /\ call[t].pc \in {"check", "insert", "default", "unlock"}
InReadSection(t) == call[t].pc \in {"read", "runlock"}

\* C14: no two RegisterProvider calls are between Lock and Unlock at the same
\* time, no reading method is between RLock and RUnlock while a
\* RegisterProvider is between Lock and Unlock, the map a call holds the lock
\* on does not change under it, and of the registrations racing for one name
\* exactly one succeeds.
C14_RegistryLockDiscipline ==
  /\ \A t1 \in Threads, t2 \in Threads :
       t1 # t2 => ~(InRegSection(t1) /\ InRegSection(t2))
  /\ \A r \in Threads, w \in Threads : ~(InReadSection(r) /\ InRegSection(w))
  /\ \A t \in Threads :
       (InRegSection(t) \/ InReadSection(t))
         => /\ providers = IF call[t].pc \in {"default", "unlock"} /\ call[t].err = "none"
                           THEN providers ELSE call[t].before.providers
            /\ InReadSection(t) => defaultProvider = call[t].before.defaultProvider
  /\ \A t \in Threads :
       (/\ call[t].op = "RegisterProvider"
        /\ call[t].pc = "returned"
        /\ GetProviderName(call[t].provider) # "")
         => Cardinality(RegisteredAs(GetProviderName(call[t].provider))) = 1

\* two threads race to register a provider named "local" that is not yet
\* registered: one is inside the section, the other waits for the lock
C14_Witness ==
  \E t1 \in Threads, t2 \in Threads :
    /\ t1 # t2
    /\ InRegSection(t1)
    /\ call[t2].op = "RegisterProvider" /\ call[t2].pc = "lock"
    /\ GetProviderName(call[t1].provider) = "local"
    /\ GetProviderName(call[t2].provider) = "local"
    /\ "local" \notin DOMAIN call[t1].before.providers
    /\ ~CanLock

(***************************************************************************)
(* Properties of AuthUseCase.RefreshToken                                  *)
(***************************************************************************)
\* C15: a RefreshToken call reaches the revocation of the old token only
\* through the step that issues the new access token and the new refresh
\* token with its store record, no earlier step of the call removes a
\* record, and the revocation step ends the call with the new pair and no
\* error whether the revocation succeeds or fails.
C15_IssueBeforeRevoke ==
  [][\A c \in Clients :
       /\ (rt'[c].pc = "revoke" /\ rt'[c] # rt[c])
            => /\ rt[c].pc = "issue"
               /\ rt'[c].access # NoToken
               /\ rt'[c].refresh # NoToken
               /\ \E rec \in refresh_tokens' \ refresh_tokens :
                    rec.token_hash = hashToken(rt'[c].refresh)
       /\ (rt[c].pc = "revoke" /\ rt'[c] # rt[c])
            => /\ rt'[c].pc = "done"
               /\ rt'[c].err = "none"
               /\ rt'[c].access = rt[c].access /\ rt[c].access # NoToken
               /\ rt'[c].refresh = rt[c].refresh /\ rt[c].refresh # NoToken
       /\ (rt'[c] # rt[c] /\ rt[c].pc # "revoke")
            => refresh_tokens \subseteq refresh_tokens']_vars

\* a rotation has returned its new pair although the revocation of the old
\* token failed: the record of the old token is still in the store
C15_Witness ==
  \E c \in Clients :
    /\ rt[c].pc = "done"
    /\ rt[c].err = "none"
    /\ rt[c].refresh # NoToken
    /\ RevokeRefreshToken(rt[c].token).err # "none"
    /\ \E rec \in refresh_tokens : rec.token_hash = hashToken(rt[c].token)

\* C16: a RefreshToken call whose token ValidateRefreshToken rejects, or whose
\* principal is soft-deleted or not active when the call looks it up, ends
\* with an error, returns no token, creates no record and deletes none.
C16_RotationReconfirmsPrincipal ==
  [][\A c \in Clients :
       /\ (rt[c].pc \in {"idle", "done"} /\ rt'[c] # rt[c]
           /\ ValidateRefreshToken(rt'[c].token).err # "none")
            => /\ rt'[c].pc = "done"
               /\ rt'[c].err # "none"
               /\ rt'[c].access = NoToken /\ rt'[c].refresh = NoToken
               /\ refresh_tokens' = refresh_tokens
               /\ issued' = issued
       /\ (rt[c].pc = "get_user" /\ rt'[c] # rt[c]
           /\ (users[rt[c].user].is_deleted
               \/ users[rt[c].user].status # UserStatusActive))
            => /\ rt'[c].pc = "done"
               /\ rt'[c].err # "none"
               /\ rt'[c].access = NoToken /\ rt'[c].refresh = NoToken
               /\ refresh_tokens' = refresh_tokens
               /\ issued' = issued
       /\ (rt'[c].pc = "done" /\ rt'[c].err # "none")
            => rt'[c].access = NoToken /\ rt'[c].refresh = NoToken]_vars

\* a rotation was refused because the account had been suspended; the record
\* of the presented token is still in the store
C16_Witness ==
  \E c \in Clients :
    /\ rt[c].pc = "done"
    /\ rt[c].err = "user account is not active"
    /\ rt[c].refresh = NoToken
    /\ \E rec \in refresh_tokens : rec.token_hash = hashToken(rt[c].token)

(***************************************************************************)
(* Properties of the JWT service                                           *)
(***************************************************************************)
\* C17: every record in the store belongs to an issued refresh token: its
\* token_hash is the hash of the signed token, its principal is the token's,
\* and its expires_at is the expiry embedded in the token, whatever refresh
\* lifetime the service was constructed with.
C17_RecordMatchesToken ==
  \A rec \in refresh_tokens :
    \E t \in issued :
      /\ rec.token_hash = hashToken(t)
      /\ rec.user_id = t.user_id
      /\ rec.expires_at = t.exp

\* C18: GenerateAccessToken, ValidateAccessToken and IntrospectToken leave
\* the refresh-token store and the principal store unchanged, and while the
\* clock stands still no step (logout, revocation, rotation, change of a
\* principal's status) changes what ValidateAccessToken answers for a token.
C18_AccessTokensStateless ==
  [][/\ now' = now =>
          \A t \in PresentedAccessTokens :
            ValidateAccessToken(t)' = ValidateAccessToken(t)
     /\ lastOp'.op \in {"GenerateAccessToken", "ValidateAccessToken", "IntrospectToken"}
          => refresh_tokens' = refresh_tokens /\ users' = users]_vars

\* an access token is accepted although its principal is suspended and the
\* refresh record of its login is gone
C18_Witness ==
  \E l \in logins :
    /\ lastOp.op = "ValidateAccessToken"
    /\ lastOp.token = l.access
    /\ lastOp.err = "none"
    /\ users["u1"].status # UserStatusActive
    /\ \A rec \in refresh_tokens : rec.token_hash # hashToken(l.refresh)

\* C19: IntrospectToken returns no error for any token; the result is active
\* with the principal id, email and expiry of the token exactly when
\* ValidateAccessToken accepts the token, and otherwise inactive with every
\* other field empty.
C19_IntrospectNeverFails ==
  /\ \A t \in PresentedAccessTokens :
       LET r == IntrospectToken(t)
       IN /\ r.err = "none"
          /\ IF ValidateAccessToken(t).err = "none"
             THEN /\ r.Active = TRUE
                  /\ r.UserID = t.user_id
                  /\ r.Email = t.email
                  /\ r.ExpiresAt = t.exp
             ELSE /\ r.Active = FALSE
                  /\ r.UserID = "none" /\ r.Email = "" /\ r.ExpiresAt = 0 /\ r.Scope = ""
  /\ lastOp.op = "IntrospectToken"
       => /\ lastOp.err = "none"
          /\ lastOp.result.Active = (ValidateAccessToken(lastOp.token).err = "none")

\* a well-signed access token that has expired was introspected
C19_Witness ==
  /\ lastOp.op = "IntrospectToken"
  /\ lastOp.token.typ = "access"
  /\ lastOp.token.sig = SigningKey
  /\ lastOp.result.Active = FALSE
  /\ lastOp.err = "none"

\* a record with the token's hash whose expires_at is still in the future
LiveRecord(t) ==
  \E rec \in refresh_tokens : rec.token_hash = hashToken(t) /\ rec.expires_at > now

\* C20: ValidateRefreshToken accepts a token only if its signature and
\* embedded expiry are valid and the store holds an unexpired record with
\* its hash; without such a record it fails with the not-found error, which
\* differs from the error for a malformed or badly signed token; and it
\* never modifies the store.
C20_RefreshNeedsLiveRecord ==
  /\ [](\A t \in PresentedRefreshTokens :
          LET v == ValidateRefreshToken(t)
              sig == JWTValidate(t, "refresh")
          IN /\ v.err = "none" => (sig = "none" /\ LiveRecord(t))
             /\ (sig = "none" /\ ~LiveRecord(t))
                  => v.err = "refresh token not found or expired"
             /\ sig # "none"
                  => (v.err # "none" /\ v.err # "refresh token not found or expired"))
  /\ [][lastOp'.op = "ValidateRefreshToken" => refresh_tokens' = refresh_tokens]_vars

\* a token whose signature and embedded expiry are valid was refused because
\* its record has expired and is not yet purged
C20_Witness ==
  /\ lastOp.op = "ValidateRefreshToken"
  /\ lastOp.err = "refresh token not found or expired"
  /\ JWTValidate(lastOp.token, "refresh") = "none"
  /\ \E rec \in refresh_tokens :
       rec.token_hash = hashToken(lastOp.token) /\ ~(rec.expires_at > now)

(***************************************************************************)
(* Properties of the password change                                       *)
(***************************************************************************)
\* C21: a step of ChangePassword changes a stored password hash only when the
\* new password has at least 8 characters and, on the AuthUseCase path, the
\* presented current password verifies against the hash stored before; every
\* other call returns an error and leaves every stored hash as it was; a
\* call that returns no error has stored the hash of the new password.
C21_PasswordChangeGuarded ==
  [][lastOp'.op \in {"ChangePassword", "LocalProvider.ChangePassword"} =>
       LET u == lastOp'.user
           allowed ==
             /\ Len(lastOp'.newPassword) >= 8
             /\ lastOp'.op = "ChangePassword"
                  => VerifyPassword(users[u].password_hash, lastOp'.password)
       IN /\ \A w \in Users : w # u => users'[w] = users[w]
          /\ ~allowed => /\ lastOp'.err # "none"
                         /\ users' = users
          /\ lastOp'.err = "none"
               => /\ allowed
                  /\ users' = [users EXCEPT ![u].password_hash =
                                              HashPassword(lastOp'.newPassword)]
          /\ lastOp'.err # "none" => users' = users]_vars

\* an AuthUseCase.ChangePassword with the right current password was refused
\* for a 7-character new password
C21_Witness ==
  /\ lastOp.op = "ChangePassword"
  /\ lastOp.newPassword = "1234567"
  /\ VerifyPassword(users[lastOp.user].password_hash, lastOp.password)
  /\ lastOp.err = "new password does not meet requirements"

(***************************************************************************)
(* Properties of the refresh-token store                                   *)
(***************************************************************************)
\* C22: for every issued refresh token, the stored record that carries the
\* token's hash has as its id the token id embedded in the token, so the
\* record ValidateRefreshToken finds by hash is the record RevokeRefreshToken
\* addresses by id.
C22_RecordIdIsTokenId ==
  \A t \in issued :
    \A rec \in refresh_tokens :
      rec.token_hash = hashToken(t) => rec.id = t.token_id

\* C23: RevokeRefreshToken (and Logout, which is that call) on a validly
\* signed, unexpired token for which the store holds no record returns the
\* not-found error and leaves the store as it was; on a malformed, badly
\* signed or expired token it returns the validation error, which is not the
\* not-found error, and leaves the store as it was.
C23_RevokeAbsentIsNotFound ==
  [][lastOp'.op \in {"RevokeRefreshToken", "Logout"} =>
       LET t == lastOp'.token
       IN /\ (/\ JWTValidate(t, "refresh") = "none"
              /\ \A rec \in refresh_tokens :
                   rec.token_hash # hashToken(t) /\ rec.id # t.token_id)
               => /\ lastOp'.err = "refresh token not found"
                  /\ refresh_tokens' = refresh_tokens
          /\ JWTValidate(t, "refresh") # "none"
               => /\ lastOp'.err = JWTValidate(t, "refresh")
                  /\ lastOp'.err # "refresh token not found"
                  /\ refresh_tokens' = refresh_tokens]_vars

\* an issued token whose record RevokeAllUserTokens removed was revoked again
\* and the call reported not found
C23_Witness ==
  /\ lastOp.op = "RevokeRefreshToken"
  /\ lastOp.token \in issued
  /\ JWTValidate(lastOp.token, "refresh") = "none"
  /\ \A rec \in refresh_tokens : rec.token_hash # hashToken(lastOp.token)
  /\ lastOp.err = "refresh token not found"

(***************************************************************************)
(* Properties of the group use case                                        *)
(***************************************************************************)
\* a group no DeleteGroup has succeeded on and no store flag marks deleted
UndeletedGroup(g) == LiveGroup(g) /\ groups[g].deleted_at = "NULL"

\* a permission held through a live role reached directly or through a
\* group that is active and was not deleted
HeldWithoutDeletedGroups(u, res, act) ==
  \E r \in Roles :
    /\ LiveRole(r)
    /\ \/ <<u, r>> \in user_roles
       \/ \E g \in Groups :
            UndeletedGroup(g) /\ <<u, g>> \in user_groups /\ <<g, r>> \in group_roles
    /\ \E p \in PermIds : <<r, p>> \in role_permissions /\ LivePermission(p, res, act)

\* C24: once DeleteGroup has succeeded on a group, CheckUserPermission grants
\* nothing on the strength of a path through that group, and still grants
\* what the principal holds through another live path.
C24_DeletedGroupInvalidatesPath ==
  \A u \in Users, res \in Resources, act \in Actions :
    CheckUserPermission(u, res, act) = HeldWithoutDeletedGroups(u, res, act)

\* C25: a successful UpdateGroup with is_active set leaves the stored group
\* with that flag, so that after a deactivation CheckUserPermission is false
\* for a principal whose only path runs through the group, and true again
\* after a re-activation.
C25_GroupDeactivationTakesEffect ==
  [][(lastOp'.op = "UpdateGroup" /\ lastOp'.err = "none") =>
       LET g == lastOp'.group
       IN /\ groups'[g].is_active = lastOp'.result.requested
          /\ \A u \in Users, r \in Roles, res \in Resources, act \in Actions :
               (GroupOnlyPath(u, g, r, res, act) /\ LiveRole(r))
                 => (CheckUserPermission(u, res, act)' = lastOp'.result.requested)]_vars

(***************************************************************************)
(* Properties of the authorization routes                                  *)
(***************************************************************************)
\* C26: a role created through CreateRole and not deleted, once linked to an
\* active permission (res, act) and assigned to an active principal, makes
\* CheckUserPermission(principal, res, act) true.
C26_CreatedRoleGrants ==
  \A r \in DOMAIN roles \ SeededRoles :
    \A u \in Users, p \in DOMAIN permissions :
      (/\ roles[r].is_deleted = FALSE
       /\ <<r, p>> \in role_permissions
       /\ permissions[p].is_active /\ ~permissions[p].is_deleted
       /\ <<u, r>> \in user_roles
       /\ users[u].status = UserStatusActive /\ ~users[u].is_deleted)
        => CheckUserPermission(u, permissions[p].resource, permissions[p].action)

\* the (resource, action) pairs CheckUserPermission grants to a principal
Granted(u) ==
  {ra \in RouteResources \X Actions : CheckUserPermission(u, ra[1], ra[2])}

\* C27: a request to the role and permission routes by a caller to whom
\* CheckUserPermission grants (roles, read) and nothing else changes no role,
\* no permission and no assignment edge, and does not raise what is granted
\* to the caller.
C27_ManagementNeedsElevatedPrivilege ==
  [][\A c \in Users :
       (/\ lastOp'.user = c
        /\ lastOp'.op \in {"CreateRole", "DeleteRole", "AssignPermissionToRole",
                           "AssignRoleToUser", "RemoveRoleFromUser"}
        /\ Granted(c) = {<<"roles", "read">>})
         => /\ UNCHANGED <<roles, permissions, user_roles, role_permissions, group_roles>>
            /\ Granted(c)' \subseteq Granted(c)]_vars

(***************************************************************************)
(* Properties of the user routes                                           *)
(***************************************************************************)
\* C28: a request to PUT /users/{id} or DELETE /users/{id} changes a user
\* record only when the principal the request is authenticated as is the
\* principal of that record.
C28_UsersManageOnlyThemselves ==
  [][(lastOp'.op \in {"PUT /users/{id}", "DELETE /users/{id}"} /\ users' # users)
       => /\ lastOp'.user = lastOp'.target
          /\ \A w \in Users : w # lastOp'.user => users'[w] = users[w]]_vars

\* C29: RevokeAllUserTokens(U) removes exactly the records of principal U:
\* after it ValidateRefreshToken fails for every refresh token issued to U,
\* and answers for the tokens of every other principal as it did before.
C29_RevokeAllIsPerPrincipal ==
  [][lastOp'.op = "RevokeAllUserTokens" =>
       LET u == lastOp'.user
       IN /\ refresh_tokens' = {rec \in refresh_tokens : rec.user_id # u}
          /\ \A t \in issued :
               IF t.user_id = u
               THEN ValidateRefreshToken(t)'.err # "none"
               ELSE ValidateRefreshToken(t)' = ValidateRefreshToken(t)]_vars

\* all tokens of u1 were revoked: a well-signed, unexpired token of u1 is no
\* longer found while a token of u2 still validates
C29_Witness ==
  /\ lastOp.op = "RevokeAllUserTokens"
  /\ lastOp.user = "u1"
  /\ \E t \in issued :
       /\ t.user_id = "u1"
       /\ JWTValidate(t, "refresh") = "none"
       /\ ValidateRefreshToken(t).err = "refresh token not found or expired"
  /\ \E t \in issued : t.user_id = "u2" /\ ValidateRefreshToken(t).err = "none"

(***************************************************************************)
(* Properties of the RBAC middleware                                       *)
(***************************************************************************)
\* an entry with exactly one separator
WellFormed(s) == Cardinality({i \in 1..Len(s) : s[i] = ":"}) = 1

\* the answer of the check for a well-formed entry
EntryGranted(u, s) ==
  LET k == CHOOSE i \in 1..Len(s) : s[i] = ":"
  IN CheckUserPermission(u, PartString(SubSeq(s, 1, k - 1)),
                            PartString(SubSeq(s, k + 1, Len(s))))

\* C30: for a request with a user_id in its context, RequirePermission calls
\* the next handler exactly when the check is true; RequireAllPermissions
\* exactly when every listed entry is well-formed and granted;
\* RequireAnyPermission exactly when some well-formed listed entry is granted
\* (an empty list is refused); and when a check the middleware gets to fails
\* with an error, the request ends with an internal error and the next
\* handler is not called.
C30_MiddlewareGatesByCheck ==
  [][(lastOp' # lastOp /\ lastOp'.user \in Users) =>
       LET u == lastOp'.user
           res == lastOp'.result
       IN /\ lastOp'.op = "RequirePermission" =>
               res.outcome = IF ~res.dbUp THEN "500"
                             ELSE IF CheckUserPermission(u, res.resource, res.action)
                             THEN "next" ELSE "403"
          /\ lastOp'.op = "RequireAllPermissions" =>
               LET n == Len(res.perms)
                   ok(i) == WellFormed(res.perms[i]) /\ EntryGranted(u, res.perms[i])
                   failing == /\ res.failAt \in 1..n
                              /\ \A j \in 1..(res.failAt - 1) : ok(j)
                              /\ WellFormed(res.perms[res.failAt])
               IN res.outcome = IF failing THEN "500"
                                ELSE IF \A i \in 1..n : ok(i) THEN "next" ELSE "403"
          /\ lastOp'.op = "RequireAnyPermission" =>
               LET n == Len(res.perms)
                   ok(i) == WellFormed(res.perms[i]) /\ EntryGranted(u, res.perms[i])
                   failing == /\ res.failAt \in 1..n
                              /\ \A j \in 1..(res.failAt - 1) : ~ok(j)
                              /\ WellFormed(res.perms[res.failAt])
               IN res.outcome = IF failing THEN "500"
                                ELSE IF \E i \in 1..n : ok(i) THEN "next" ELSE "403"]_vars

\* RequireAnyPermission let a request through on its second entry after
\* skipping a malformed first one
C30_Witness ==
  /\ lastOp.op = "RequireAnyPermission"
  /\ lastOp.user \in Users
  /\ Len(lastOp.result.perms) = 2
  /\ ~WellFormed(lastOp.result.perms[1])
  /\ lastOp.result.outcome = "next"

=============================================================================
